---- MODULE Spec2Model ----
(***************************************************************************)
(* cudascope: the time-series storage engine (package storage).            *)
(*                                                                         *)
(* The store is the SQLite schema of internal/storage/migrations after     *)
(* all migrations: raw / 1m / 1h tables for GPU and host samples, the      *)
(* process table, gpu_devices and nodes, with the unique indexes of        *)
(* 004_rollup_unique.sql on the rollup tables.  Of the metric columns two  *)
(* are kept for GPU samples (gpu_util, a REAL, and temperature, an         *)
(* INTEGER) and one for host samples (cpu_percent), each with its _avg     *)
(* and _max rollup columns; the other columns are aggregated by the same   *)
(* statements in the same way.                                             *)
(*                                                                         *)
(* Two specifications of the storage layer share the store:               *)
(*   Spec      the storage operations as the write lock makes them (one    *)
(*             step per call), the clock and the retention cycle           *)
(*             doRetention;                                                *)
(*   ConcSpec  goroutines that call the methods of DB and run them one     *)
(*             statement at a time, with the mutex db.mu and the single    *)
(*             pooled connection (SetMaxOpenConns(1)); a statement may     *)
(*             fail;                                                       *)
(* and three specifications of the API server, one step per request,      *)
(* with a clock of seconds and every statement succeeding:                 *)
(*   SeriesSpec  the ingest of samples, the retention cycle and the        *)
(*               time-series queries;                                      *)
(*   LatestSpec  the ingest on the hub and by the standalone collector     *)
(*               and the views of the current state;                       *)
(*   NodeSpec    registration, ingest and the node list;                   *)
(* the background loops of the process, with the context of main, the      *)
(* tickers, statements that may fail and the shutdown:                     *)
(*   RetentionSpec  RunRetention, one call of doRetention per step;        *)
(*   CollectorSpec  Collector.Run, one collectGPU or collectHost per step; *)
(* and the alert evaluator, which is described in the specification of     *)
(* the engine (sections 3 and 4.6):                                        *)
(*   AlertSpec   the ingest of GPU samples and the active alerts.          *)
(***************************************************************************)
EXTENDS Integers, Sequences, FiniteSets, TLC

(* ------------------------------ bounds ------------------------------ *)

\* number of clock advances in a behaviour
MaxTicks == 4

\* number of write calls (GPU, host, process) in a behaviour
MaxWrites == 2

\* longest batch of one write call
MaxBatch == 1

\* number of method calls the goroutines start in a behaviour of ConcSpec
MaxCalls == 4

\* requests that write, per behaviour of SeriesSpec, LatestSpec and NodeSpec
MaxRequests == 2

\* clock advances between requests, per behaviour of these specifications
MaxApiTicks == 2

\* statements that fail for a reason outside the store (disk, lock
\* contention), per behaviour of the specifications of the background loops
MaxFaults == 1

\* ticker periods that pass in a behaviour of these specifications
MaxPeriods == 2

\* the attempts of Register that are counted
MaxAttempts == 3

\* the sockets the dashboard makes in a behaviour
MaxSockets == 3

\* the timers the dashboard sets in a behaviour
MaxTimers == 3

(* --------------------------- input domains --------------------------- *)

\* the clock at process start (epoch seconds, not on a bucket boundary)
T0 == 2 * 3600 + 30

\* the clock advances by one of these amounts between two steps
Steps == {40, 2 * 3600, 30 * 24 * 3600}

\* node ids a caller may send ("" is the unset id of a standalone collector)
NodeIDs == {"", "n1"}

\* device indexes of the samples
GPUIDs == {0}

\* gpu_util values of the GPU samples
Vals == {20, 80}

\* temperature values of the GPU samples (an integer column)
Temps == {45}

\* cpu_percent values of the host samples
HostVals == {50}

\* pids of the process samples
PIDs == {1}

\* the goroutines that call into the store
Procs == {"g1", "g2"}

\* retention durations a goroutine passes on to prune (flags -retention-*)
Keeps == {60, 180}

\* the seconds that pass between two requests
ApiSteps == {1, 30, 59, 60}

(* ------------------------- program constants ------------------------- *)

\* settle window of raw -> 1m (doRetention: now - 120)
Settle1m == 120

\* settle window of 1m -> 1h (doRetention: now - 7200)
Settle1h == 7200

\* bucket width of the 1-minute tier ((ts / 60) * 60)
Bucket1m == 60

\* bucket width of the 1-hour tier ((ts / 3600) * 3600)
Bucket1h == 3600

\* default retention durations in seconds (config.Load)
RetentionRaw == 24 * 3600

Retention1m == 30 * 24 * 3600

Retention1h == 365 * 24 * 3600

\* SQL NULL
NULL == "NULL"

\* the connections that browsers open to /api/v1/ws
Conns == {"c1", "c2"}

\* the goroutines that call Hub.Broadcast: the loop of the collector and an
\* ingest handler of the server
Broadcasters == {"collector", "handler"}

(* ------------------------------ helpers ------------------------------ *)

RECURSIVE GCD(_, _)
GCD(a, b) == IF b = 0 THEN a ELSE GCD(b, a % b)

\* a REAL that is a quotient of integers, in lowest terms
Rat(n, d) == LET g == GCD(n, d) IN [num |-> n \div g, den |-> d \div g]

RatAdd(x, y) == Rat(x.num * y.den + y.num * x.den, x.den * y.den)

RECURSIVE SumF(_, _)
SumF(f, S) ==
    IF S = {} THEN 0
    ELSE LET x == CHOOSE x \in S : TRUE IN f[x] + SumF(f, S \ {x})

RECURSIVE RatSumF(_, _)
RatSumF(f, S) ==
    IF S = {} THEN Rat(0, 1)
    ELSE LET x == CHOOSE x \in S : TRUE IN RatAdd(f[x], RatSumF(f, S \ {x}))

\* SQL AVG over the integer column f of the rows S (S is not empty)
AVG(f, S) == Rat(SumF(f, S), Cardinality(S))

\* SQL AVG over the REAL column f of the rows S (S is not empty)
AVGReal(f, S) == LET s == RatSumF(f, S) IN Rat(s.num, s.den * Cardinality(S))

\* SQL MAX over a set of integers (not empty)
MAX(S) == CHOOSE m \in S : \A x \in S : x <= m

\* SELECT COALESCE(MAX(ts), 0) FROM table
MaxTs(table) == IF table = {} THEN 0 ELSE MAX({r.ts : r \in table})

\* COALESCE(node_id, 'local')
Coalesce(n) == IF n = NULL THEN "local" ELSE n

\* (ts / size) * size
Bucket(ts, size) == (ts \div size) * size

(* ------------------------------- state ------------------------------- *)

VARIABLES
    now,        \* time.Now().Unix()
    ticks,      \* clock advances so far
    writes,     \* write calls so far
    db,         \* the database: table name -> committed rows
    logged,     \* the messages written with log.Printf
    mu,         \* db.mu: TRUE when locked
    conn,       \* the goroutine that has the one pooled connection, or NULL
    tx,         \* the database as the open transaction sees it, or NULL
    pc,         \* goroutine -> the statement it runs next
    op,         \* goroutine -> the call it is in and its locals
    calls,      \* method calls started so far
    resp,       \* the last request served: its time, handler, input and response
    ctxDone,    \* TRUE once cancel() was called: ctx.Done() is closed
    closed,     \* TRUE once db.Close() has returned
    exited,     \* TRUE once main has returned: the process is gone
    tickerC,    \* ticker -> the ticks waiting in its channel C (capacity 1)
    retention,  \* the goroutine of RunRetention: its position and its counts
    collector,  \* the goroutine of Collector.Run
    alerts,     \* the active alerts, in the order the evaluation found them
    faults,     \* statements that failed so far for a reason outside the store
    twin,       \* the database of the execution in which the node NodeB sent nothing
    agent,      \* the goroutine of Agent.Register, its request and the hub it posts to
    hub,        \* the WebSocket Hub: its clients, its RWMutex and the goroutines in it
    ui          \* the dashboard's WebSocket store: ws, reconnectTimer, sockets, timers

vars == <<now, ticks, writes, db, logged, mu, conn, tx, pc, op, calls, resp,
          ctxDone, closed, exited, tickerC, retention, collector, alerts, faults,
          twin, agent, hub, ui>>

\* what runs beside the store: the agent, the WebSocket hub and the dashboard
peers == <<agent, hub, ui>>

\* the state of the process, of its background loops and of the alert evaluator
daemon == <<ctxDone, closed, exited, tickerC, retention, collector, alerts, faults,
            twin, peers>>

\* the state of the goroutines
goroutines == <<mu, conn, tx, pc, op, calls>>

\* the tables of migrations 001-003
Tables == {"gpu_metrics_raw", "gpu_metrics_1m", "gpu_metrics_1h",
           "host_metrics_raw", "host_metrics_1m", "host_metrics_1h",
           "gpu_processes", "gpu_devices", "nodes"}

(* ------------------------------ the store ----------------------------- *)

\* INSERT of the row r (with dup = 0); a table is a bag and the column dup
\* tells equal rows apart
Insert(rows, r) ==
    rows \cup {[r EXCEPT !.dup = Cardinality({e \in rows : [e EXCEPT !.dup = 0] = r})]}

\* the columns of the unique indexes uq_gpu_1m, uq_gpu_1h
GPUKey(r) == <<r.ts, r.node_id, r.gpu_id>>

\* the columns of the unique indexes uq_host_1m, uq_host_1h
HostKey(r) == <<r.ts, r.node_id>>

\* the index columns of the row r of a rollup table
RollupKey(table, r) ==
    IF table \in {"gpu_metrics_1m", "gpu_metrics_1h"} THEN GPUKey(r) ELSE HostKey(r)

\* a table without a unique index rejects no row
NoUniqueIndex(table, stored, rows) == FALSE

\* a unique index rejects the rows when one of them has the key of a stored row
UniqueViolation(table, stored, rows) ==
    \E n \in rows, e \in stored : RollupKey(table, n) = RollupKey(table, e)

\* an INSERT OR FAIL: the rows inserted before the violation stay
InsertSelectPartial(table, stored, rows) ==
    IF UniqueViolation(table, stored, rows)
    THEN [err |-> TRUE,
          rows |-> stored \cup {n \in rows :
                        \A e \in stored : RollupKey(table, n) # RollupKey(table, e)}]
    ELSE [err |-> FALSE, rows |-> stored \cup UNION {Insert(stored, r) : r \in rows}]

\* INSERT INTO table SELECT ...: one statement; on a constraint violation
\* SQLite aborts the statement and none of its rows stay.  The selected rows
\* differ in their GROUP BY columns, so each is numbered against the stored rows.
InsertSelect(table, stored, rows) ==
    IF UniqueViolation(table, stored, rows)
    THEN [err |-> TRUE, rows |-> stored]
    ELSE [err |-> FALSE, rows |-> stored \cup UNION {Insert(stored, r) : r \in rows}]

\* WHERE ts > ?: a pass without the upper bound
SelectedUnsettled(source, lastRolled, beforeTs) ==
    {r \in source : r.ts > lastRolled}

\* WHERE ts > ? AND ts <= ?
Selected(source, lastRolled, beforeTs) ==
    {r \in source : r.ts > lastRolled /\ r.ts <= beforeTs}

\* a SELECT with GROUP BY minute_ts, gpu_id: the nodes of a device index share a row
SelectGPU1mPerDevice(source, lastRolled, beforeTs) ==
    LET sel == Selected(source, lastRolled, beforeTs)
        key(r) == <<Bucket(r.ts, Bucket1m), r.gpu_id>>
    IN  { LET g == {r \in sel : key(r) = k}
          IN  [ts |-> k[1], node_id |-> Coalesce((CHOOSE r \in g : TRUE).node_id),
               gpu_id |-> k[2],
               gpu_util_avg |-> AVG([r \in g |-> r.gpu_util], g),
               gpu_util_max |-> MAX({r.gpu_util : r \in g}),
               temperature_avg |-> AVG([r \in g |-> r.temperature], g),
               temperature_max |-> MAX({r.temperature : r \in g}),
               dup |-> 0]
          : k \in {key(r) : r \in sel} }

\* the SELECT of rollupGPUTo1m: GROUP BY minute_ts, COALESCE(node_id, 'local'), gpu_id
SelectGPU1m(source, lastRolled, beforeTs) ==
    LET sel == Selected(source, lastRolled, beforeTs)
        key(r) == <<Bucket(r.ts, Bucket1m), Coalesce(r.node_id), r.gpu_id>>
    IN  { LET g == {r \in sel : key(r) = k}
          IN  [ts |-> k[1], node_id |-> k[2], gpu_id |-> k[3],
               gpu_util_avg |-> AVG([r \in g |-> r.gpu_util], g),
               gpu_util_max |-> MAX({r.gpu_util : r \in g}),
               temperature_avg |-> AVG([r \in g |-> r.temperature], g),
               temperature_max |-> MAX({r.temperature : r \in g}),
               dup |-> 0]
          : k \in {key(r) : r \in sel} }

\* the SELECT of rollupGPUTo1h: GROUP BY hour_ts, COALESCE(node_id, 'local'), gpu_id
SelectGPU1h(source, lastRolled, beforeTs) ==
    LET sel == Selected(source, lastRolled, beforeTs)
        key(r) == <<Bucket(r.ts, Bucket1h), Coalesce(r.node_id), r.gpu_id>>
    IN  { LET g == {r \in sel : key(r) = k}
          IN  [ts |-> k[1], node_id |-> k[2], gpu_id |-> k[3],
               gpu_util_avg |-> AVGReal([r \in g |-> r.gpu_util_avg], g),
               gpu_util_max |-> MAX({r.gpu_util_max : r \in g}),
               temperature_avg |-> AVGReal([r \in g |-> r.temperature_avg], g),
               temperature_max |-> MAX({r.temperature_max : r \in g}),
               dup |-> 0]
          : k \in {key(r) : r \in sel} }

\* the SELECT of rollupHostTo1m: GROUP BY minute_ts, node_id
SelectHost1m(source, lastRolled, beforeTs) ==
    LET sel == Selected(source, lastRolled, beforeTs)
        key(r) == <<Bucket(r.ts, Bucket1m), r.node_id>>
    IN  { LET g == {r \in sel : key(r) = k}
          IN  [ts |-> k[1], node_id |-> k[2],
               cpu_percent_avg |-> AVG([r \in g |-> r.cpu_percent], g),
               cpu_percent_max |-> MAX({r.cpu_percent : r \in g}),
               dup |-> 0]
          : k \in {key(r) : r \in sel} }

\* the SELECT of rollupHostTo1h: GROUP BY hour_ts, node_id
SelectHost1h(source, lastRolled, beforeTs) ==
    LET sel == Selected(source, lastRolled, beforeTs)
        key(r) == <<Bucket(r.ts, Bucket1h), r.node_id>>
    IN  { LET g == {r \in sel : key(r) = k}
          IN  [ts |-> k[1], node_id |-> k[2],
               cpu_percent_avg |-> AVGReal([r \in g |-> r.cpu_percent_avg], g),
               cpu_percent_max |-> MAX({r.cpu_percent_max : r \in g}),
               dup |-> 0]
          : k \in {key(r) : r \in sel} }

\* the four compaction passes: source and target table, settle window, bucket
Passes == {"rollupGPUTo1m", "rollupHostTo1m", "rollupGPUTo1h", "rollupHostTo1h"}

Source(pass) ==
    CASE pass = "rollupGPUTo1m"  -> "gpu_metrics_raw"
      [] pass = "rollupHostTo1m" -> "host_metrics_raw"
      [] pass = "rollupGPUTo1h"  -> "gpu_metrics_1m"
      [] pass = "rollupHostTo1h" -> "host_metrics_1m"

Target(pass) ==
    CASE pass = "rollupGPUTo1m"  -> "gpu_metrics_1m"
      [] pass = "rollupHostTo1m" -> "host_metrics_1m"
      [] pass = "rollupGPUTo1h"  -> "gpu_metrics_1h"
      [] pass = "rollupHostTo1h" -> "host_metrics_1h"

Settle(pass) == IF pass \in {"rollupGPUTo1m", "rollupHostTo1m"} THEN Settle1m ELSE Settle1h

BucketOf(pass) == IF pass \in {"rollupGPUTo1m", "rollupHostTo1m"} THEN Bucket1m ELSE Bucket1h

\* the rows the SELECT of a pass produces
SelectOf(pass, source, lastRolled, beforeTs) ==
    CASE pass = "rollupGPUTo1m"  -> SelectGPU1m(source, lastRolled, beforeTs)
      [] pass = "rollupHostTo1m" -> SelectHost1m(source, lastRolled, beforeTs)
      [] pass = "rollupGPUTo1h"  -> SelectGPU1h(source, lastRolled, beforeTs)
      [] pass = "rollupHostTo1h" -> SelectHost1h(source, lastRolled, beforeTs)

\* a pass on the database d: read the high-water mark, then INSERT ... SELECT
Rollup(pass, d, beforeTs) ==
    InsertSelect(Target(pass), d[Target(pass)],
                 SelectOf(pass, d[Source(pass)], MaxTs(d[Target(pass)]), beforeTs))

\* the log line of a failed pass
RollupError(pass) ==
    CASE pass = "rollupGPUTo1m"  -> "GPU rollup to 1m error"
      [] pass = "rollupHostTo1m" -> "host rollup to 1m error"
      [] pass = "rollupGPUTo1h"  -> "GPU rollup to 1h error"
      [] pass = "rollupHostTo1h" -> "host rollup to 1h error"

\* DELETE FROM table WHERE ts >= ?
DeleteNewer(rows, beforeTs) == {r \in rows : ~(r.ts >= beforeTs)}

\* DELETE FROM table WHERE ts < ?
Delete(rows, beforeTs) == {r \in rows : ~(r.ts < beforeTs)}

\* a cycle that prunes every tier before it compacts
CyclePruneFirst == <<
    [fn |-> "prune", table |-> "gpu_metrics_raw", keep |-> RetentionRaw],
    [fn |-> "prune", table |-> "gpu_metrics_1m", keep |-> Retention1m],
    [fn |-> "prune", table |-> "gpu_metrics_1h", keep |-> Retention1h],
    [fn |-> "prune", table |-> "host_metrics_raw", keep |-> RetentionRaw],
    [fn |-> "prune", table |-> "host_metrics_1m", keep |-> Retention1m],
    [fn |-> "prune", table |-> "host_metrics_1h", keep |-> Retention1h],
    [fn |-> "prune", table |-> "gpu_processes", keep |-> RetentionRaw],
    [fn |-> "rollupGPUTo1m"], [fn |-> "rollupHostTo1m"],
    [fn |-> "rollupGPUTo1h"], [fn |-> "rollupHostTo1h"] >>

\* the calls of doRetention, in order
Cycle == <<
    [fn |-> "rollupGPUTo1m"], [fn |-> "rollupHostTo1m"],
    [fn |-> "rollupGPUTo1h"], [fn |-> "rollupHostTo1h"],
    [fn |-> "prune", table |-> "gpu_metrics_raw", keep |-> RetentionRaw],
    [fn |-> "prune", table |-> "gpu_metrics_1m", keep |-> Retention1m],
    [fn |-> "prune", table |-> "gpu_metrics_1h", keep |-> Retention1h],
    [fn |-> "prune", table |-> "host_metrics_raw", keep |-> RetentionRaw],
    [fn |-> "prune", table |-> "host_metrics_1m", keep |-> Retention1m],
    [fn |-> "prune", table |-> "host_metrics_1h", keep |-> Retention1h],
    [fn |-> "prune", table |-> "gpu_processes", keep |-> RetentionRaw] >>

\* one compaction pass on the store st = [db, logged]
rollup(pass, st, beforeTs) ==
    LET res == Rollup(pass, st.db, beforeTs)
    IN  [db |-> [st.db EXCEPT ![Target(pass)] = res.rows],
         logged |-> IF res.err THEN st.logged \cup {RollupError(pass)} ELSE st.logged]

\* prune(table, beforeTs) on the store st
prune(table, st, beforeTs) ==
    [db |-> [st.db EXCEPT ![table] = Delete(@, beforeTs)], logged |-> st.logged]

\* the k-th call of a doRetention that read the clock at t, on the store st
Call(k, st, t) ==
    IF Cycle[k].fn = "prune"
    THEN prune(Cycle[k].table, st, t - Cycle[k].keep)
    ELSE rollup(Cycle[k].fn, st, t - Settle(Cycle[k].fn))

\* the store after the first k calls of a doRetention that read the clock at t
RECURSIVE AfterCalls(_, _, _)
AfterCalls(k, st, t) ==
    IF k = 0 THEN st ELSE Call(k, AfterCalls(k - 1, st, t), t)

(* ------------------------------- inputs ------------------------------- *)

\* the GPU samples a caller may send at time t
GPUSamples(t) ==
    [Timestamp : {t}, NodeID : NodeIDs, GPUID : GPUIDs, GPUUtil : Vals, Temperature : Temps]

HostSamples(t) == [Timestamp : {t}, NodeID : NodeIDs, CPUPercent : HostVals]

ProcSamples(t) == [Timestamp : {t}, NodeID : {""}, GPUID : GPUIDs, PID : PIDs]

Batches(samples) == UNION {[1..n -> samples] : n \in 0..MaxBatch}

\* the INSERT of one GPU sample
InsertGPUMetrics(rows, m) ==
    Insert(rows, [ts |-> m.Timestamp,
                  node_id |-> IF m.NodeID = "" THEN "local" ELSE m.NodeID,
                  gpu_id |-> m.GPUID, gpu_util |-> m.GPUUtil,
                  temperature |-> m.Temperature, dup |-> 0])

\* the INSERT of one process
InsertGPUProcess(rows, p) ==
    Insert(rows, [ts |-> p.Timestamp,
                  node_id |-> IF p.NodeID = "" THEN "local" ELSE p.NodeID,
                  gpu_id |-> p.GPUID, pid |-> p.PID, dup |-> 0])

\* the INSERT of a host sample
InsertHostMetrics(rows, m) ==
    Insert(rows, [ts |-> m.Timestamp, node_id |-> m.NodeID,
                  cpu_percent |-> m.CPUPercent, dup |-> 0])

\* an upsert that replaces the row it conflicts with (INSERT OR REPLACE)
UpsertReplace(rows, nodeID, d, t) ==
    {e \in rows : ~(e.node_id = nodeID /\ e.gpu_id = d.ID)}
        \cup {[node_id |-> nodeID, gpu_id |-> d.ID, uuid |-> d.UUID,
                name |-> d.Name, first_seen |-> t]}

\* INSERT INTO gpu_devices ... ON CONFLICT(node_id, gpu_id) DO UPDATE SET
\* name, mem_total, driver_ver, uuid (first_seen stays)
Upsert(rows, nodeID, d, t) ==
    LET old == {e \in rows : e.node_id = nodeID /\ e.gpu_id = d.ID}
    IN  IF old = {}
        THEN rows \cup {[node_id |-> nodeID, gpu_id |-> d.ID, uuid |-> d.UUID,
                         name |-> d.Name, first_seen |-> t]}
        ELSE (rows \ old) \cup {[e EXCEPT !.name = d.Name, !.uuid = d.UUID] : e \in old}

\* the statement of a batch call for the element x of its batch
BatchStmt(call, rows, x) ==
    CASE call.fn = "WriteGPUMetrics"    -> InsertGPUMetrics(rows, x)
      [] call.fn = "WriteGPUProcesses"  -> InsertGPUProcess(rows, x)
      [] call.fn = "RegisterGPUDevices" -> Upsert(rows, call.nodeID, x, now)

\* the rows of the table after the statements for the first n elements
RECURSIVE BatchRows(_, _, _)
BatchRows(call, rows, n) ==
    IF n = 0 THEN rows
    ELSE BatchStmt(call, BatchRows(call, rows, n - 1), call.batch[n])

(* ------------------------------- actions ------------------------------ *)

\* no call in progress
IdleOp == [call |-> [fn |-> "none"], i |-> 0, lastRolled |-> 0, pre |-> NULL,
           err |-> FALSE, rows |-> {}]

\* 003_multinode.sql registers the node 'local'
LocalNode(t) == [node_id |-> "local", hostname |-> "local", gpu_count |-> 0,
                 first_seen |-> t, last_seen |-> t]

\* the tickers: of RunRetention, and gpuTicker and hostTicker of Collector.Run
Tickers == {"RunRetention", "gpuTicker", "hostTicker"}

\* a loop before its first statement: no cycle run, no tick received, nothing
\* collected; k, now, ran and failed are those of the cycle in progress
NotStarted == [pc |-> "start", k |-> 0, now |-> 0, cycles |-> 0, received |-> 0,
               ran |-> {}, failed |-> {}]

\* Collector.Run in its select: no tick received, no write failed
Collecting == [pc |-> "select", received |-> 0, errors |-> 0, errAt |-> 0]

\* no request was served yet
NoRequest == [at |-> 0, fn |-> "none"]

\* Register has not been called: the hub is not reachable yet
NotRegistered ==
    [pc |-> "post", secs |-> 0, attempts |-> 0, hub |-> "down",
     accepted |-> FALSE, result |-> "none"]

\* websocket.ts when the module is loaded: ws and reconnectTimer are null
\* (0), no socket was made and no timer was set
NoSocket ==
    [ws |-> 0, reconnectTimer |-> 0, sockets |-> <<>>, timers |-> {}, set |-> 0,
     connected |-> FALSE, stopped |-> FALSE]

\* NewHub(): no client, nobody in Broadcast or HandleWS
NewHub ==
    [clients |-> {}, rlocked |-> {},
     pc |-> [b \in Broadcasters |-> "idle"],
     todo |-> [b \in Broadcasters |-> {}],
     conn |-> [b \in Broadcasters |-> NULL],
     ws |-> [c \in Conns |-> "none"],
     connState |-> [c \in Conns |-> "none"],
     peer |-> [c \in Conns |-> "reading"],
     removers |-> [c \in Conns |-> 0],
     failed |-> {}, crashed |-> FALSE]

Init ==
    /\ now = T0
    /\ ticks = 0
    /\ writes = 0
    /\ db = [t \in Tables |-> IF t = "nodes" THEN {LocalNode(T0)} ELSE {}]
    /\ logged = {}
    /\ mu = FALSE
    /\ conn = NULL
    /\ tx = NULL
    /\ pc = [p \in Procs |-> "idle"]
    /\ op = [p \in Procs |-> IdleOp]
    /\ calls = 0
    /\ resp = NoRequest
    /\ ctxDone = FALSE
    /\ closed = FALSE
    /\ exited = FALSE
    /\ tickerC = [t \in Tickers |-> 0]
    /\ retention = NotStarted
    /\ collector = Collecting
    /\ alerts = <<>>
    /\ faults = 0
    /\ twin = [t \in Tables |-> IF t = "nodes" THEN {LocalNode(T0)} ELSE {}]
    /\ agent = NotRegistered
    /\ hub = NewHub
    /\ ui = NoSocket

\* time passes
Tick ==
    /\ ticks < MaxTicks
    /\ \E d \in Steps : now' = now + d
    /\ ticks' = ticks + 1
    /\ UNCHANGED <<daemon, resp, writes, db, logged, goroutines>>

\* WriteGPUMetrics, every statement succeeding
WriteGPUMetrics ==
    /\ writes < MaxWrites
    /\ \E metrics \in Batches(GPUSamples(now)) :
        db' = [db EXCEPT !["gpu_metrics_raw"] = BatchRows([fn |-> "WriteGPUMetrics", batch |-> metrics], @, Len(metrics))]
    /\ writes' = writes + 1
    /\ UNCHANGED <<daemon, resp, now, ticks, logged, goroutines>>

\* WriteHostMetrics, the statement succeeding
WriteHostMetrics ==
    /\ writes < MaxWrites
    /\ \E m \in HostSamples(now) :
        db' = [db EXCEPT !["host_metrics_raw"] = InsertHostMetrics(@, m)]
    /\ writes' = writes + 1
    /\ UNCHANGED <<daemon, resp, now, ticks, logged, goroutines>>

\* WriteGPUProcesses, every statement succeeding
WriteGPUProcesses ==
    /\ writes < MaxWrites
    /\ \E procs \in Batches(ProcSamples(now)) :
        db' = [db EXCEPT !["gpu_processes"] = BatchRows([fn |-> "WriteGPUProcesses", batch |-> procs], @, Len(procs))]
    /\ writes' = writes + 1
    /\ UNCHANGED <<daemon, resp, now, ticks, logged, goroutines>>

\* RunRetention calls doRetention (at startup, then on every tick of its ticker)
doRetention ==
    /\ LET st == AfterCalls(Len(Cycle), [db |-> db, logged |-> logged], now)
       IN  /\ db' = st.db
           /\ logged' = st.logged
    /\ UNCHANGED <<daemon, resp, now, ticks, writes, goroutines>>

Next ==
    \/ Tick
    \/ WriteGPUMetrics
    \/ WriteHostMetrics
    \/ WriteGPUProcesses
    \/ doRetention

Spec == Init /\ [][Next]_vars

(* --------------- goroutines: one statement per step ------------------ *)

\* the GPU samples, processes and devices the goroutines send
ConcSample(age, temp) ==
    [Timestamp |-> now - age, NodeID |-> "", GPUID |-> 0, GPUUtil |-> 20, Temperature |-> temp]

ConcGPUBatches == {<<>>, <<ConcSample(200, 45), ConcSample(190, 46), ConcSample(130, 45)>>}

ConcProc(pid) == [Timestamp |-> now, NodeID |-> "", GPUID |-> 0, PID |-> pid]

ConcProcBatches == {<<>>, <<ConcProc(1), ConcProc(2)>>}

ConcDevice(id) == [ID |-> id, UUID |-> IF id = 0 THEN "GPU-a" ELSE "GPU-b", Name |-> "A100"]

ConcDeviceBatches == {<<ConcDevice(0), ConcDevice(1)>>}

\* the method calls a goroutine may make
Calls ==
    {[fn |-> "WriteGPUMetrics", batch |-> b] : b \in ConcGPUBatches}
    \cup {[fn |-> "WriteGPUProcesses", batch |-> b] : b \in ConcProcBatches}
    \cup {[fn |-> "RegisterGPUDevices", nodeID |-> "n1", batch |-> b] : b \in ConcDeviceBatches}
    \cup {[fn |-> "WriteHostMetrics", m |-> [Timestamp |-> now, NodeID |-> "n1", CPUPercent |-> 50]]}
    \cup {[fn |-> "RegisterNode", nodeID |-> "n1", hostname |-> "host1", gpuCount |-> 2]}
    \cup {[fn |-> "UpdateNodeSeen", nodeID |-> "local"]}
    \cup {[fn |-> "rollupGPUTo1m", beforeTs |-> now - Settle1m]}
    \cup {[fn |-> "prune", table |-> "gpu_metrics_1m", beforeTs |-> now - k] : k \in Keeps}
    \cup {[fn |-> "GetGPUDevices", nodeID |-> ""]}
    \cup {[fn |-> "GetGPUMetrics", q |-> [NodeID |-> "", GPUID |-> 0, From |-> now - 3600, To |-> now]]}

\* the calls that write a batch in a transaction, and the table they write
TxWrites == {"WriteGPUMetrics", "WriteGPUProcesses"}

\* the calls that take a batch
BatchWrites == TxWrites \cup {"RegisterGPUDevices"}

\* the writes of one statement
SingleWrites == {"WriteHostMetrics", "RegisterNode", "UpdateNodeSeen"}

\* the database d after the statement of a single-statement write at time t
SingleStmt(call, d, t) ==
    CASE call.fn = "WriteHostMetrics" ->
            [d EXCEPT !["host_metrics_raw"] = InsertHostMetrics(@, call.m)]
      [] call.fn = "RegisterNode" ->
            [d EXCEPT !["nodes"] =
                IF \E e \in @ : e.node_id = call.nodeID
                THEN {IF e.node_id = call.nodeID
                      THEN [e EXCEPT !.hostname = call.hostname,
                                     !.gpu_count = call.gpuCount, !.last_seen = t]
                      ELSE e : e \in @}
                ELSE @ \cup {[node_id |-> call.nodeID, hostname |-> call.hostname,
                              gpu_count |-> call.gpuCount, first_seen |-> t,
                              last_seen |-> t]}]
      [] call.fn = "UpdateNodeSeen" ->
            [d EXCEPT !["nodes"] =
                {IF e.node_id = call.nodeID THEN [e EXCEPT !.last_seen = t] ELSE e : e \in @}]

\* the reads: they do not take db.mu
Reads == {"GetGPUDevices", "GetGPUMetrics"}

\* the table a batch call writes
BatchTable(fn) ==
    CASE fn = "WriteGPUMetrics"    -> "gpu_metrics_raw"
      [] fn = "WriteGPUProcesses"  -> "gpu_processes"
      [] fn = "RegisterGPUDevices" -> "gpu_devices"

\* a router that sends the boundary spans to the coarser tier
selectResolutionBelow(spanSec) ==
    IF spanSec < 3600 THEN "gpu_metrics_raw"
    ELSE IF spanSec < 86400 THEN "gpu_metrics_1m"
    ELSE "gpu_metrics_1h"

\* selectResolution: the table for a time span
selectResolution(spanSec) ==
    IF spanSec <= 3600 THEN "gpu_metrics_raw"
    ELSE IF spanSec <= 86400 THEN "gpu_metrics_1m"
    ELSE "gpu_metrics_1h"

\* the rows a read returns from the database d
QueryRows(call, d) ==
    IF call.fn = "GetGPUDevices"
    THEN {e \in d["gpu_devices"] : call.nodeID = "" \/ e.node_id = call.nodeID}
    ELSE {e \in d[selectResolution(call.q.To - call.q.From)] :
            /\ call.q.NodeID = "" \/ e.node_id = call.q.NodeID
            /\ e.gpu_id = call.q.GPUID
            /\ e.ts >= call.q.From
            /\ e.ts <= call.q.To}

\* a lock that never makes its caller wait
NeverWaits(m) == TRUE

\* sync.Mutex: Lock returns only when the mutex is unlocked
Unlocked(m) == m = FALSE

\* database/sql with SetMaxOpenConns(1): a statement waits for the connection
ConnFree == conn = NULL

\* the goroutine p calls a method of DB
Start(p) ==
    /\ pc[p] = "idle"
    /\ calls < MaxCalls
    /\ \E call \in Calls :
        /\ op' = [op EXCEPT ![p] = [IdleOp EXCEPT !.call = call]]
        /\ pc' = [pc EXCEPT ![p] =
                    IF call.fn \in Reads THEN "Query"
                    ELSE IF call.fn = "WriteGPUProcesses" /\ Len(call.batch) = 0
                    THEN "Return"
                    ELSE "Lock"]
    /\ calls' = calls + 1
    /\ UNCHANGED <<daemon, resp, now, ticks, writes, db, logged, mu, conn, tx>>

\* db.mu.Lock()
Lock(p) ==
    /\ pc[p] = "Lock"
    /\ Unlocked(mu)
    /\ mu' = TRUE
    /\ op' = [op EXCEPT ![p].pre = db]
    /\ pc' = [pc EXCEPT ![p] =
                IF op[p].call.fn \in TxWrites THEN "Begin"
                ELSE IF op[p].call.fn = "rollupGPUTo1m" THEN "QueryRow"
                ELSE IF op[p].call.fn = "RegisterGPUDevices" /\ Len(op[p].call.batch) = 0
                THEN "Unlock"
                ELSE "Exec"]
    /\ UNCHANGED <<daemon, resp, now, ticks, writes, db, logged, conn, tx, calls>>

\* tx, err := db.conn.Begin()
Begin(p) ==
    /\ pc[p] = "Begin"
    /\ ConnFree
    /\ conn' = p
    /\ tx' = db
    /\ pc' = [pc EXCEPT ![p] = IF Len(op[p].call.batch) = 0 THEN "Commit" ELSE "Exec"]
    /\ UNCHANGED <<daemon, resp, now, ticks, writes, db, logged, mu, op, calls>>

\* stmt.Exec(...) inside the transaction, for the next element of the batch
ExecTx(p) ==
    /\ pc[p] = "Exec"
    /\ op[p].call.fn \in TxWrites
    /\ conn = p
    /\ \E ok \in BOOLEAN :
        IF ok
        THEN /\ tx' = [tx EXCEPT ![BatchTable(op[p].call.fn)] =
                          BatchStmt(op[p].call, @, op[p].call.batch[op[p].i + 1])]
             /\ op' = [op EXCEPT ![p].i = @ + 1]
             /\ pc' = [pc EXCEPT ![p] =
                          IF op[p].i + 1 = Len(op[p].call.batch) THEN "Commit" ELSE "Exec"]
        ELSE /\ op' = [op EXCEPT ![p].err = TRUE]
             /\ pc' = [pc EXCEPT ![p] = "Rollback"]
             /\ UNCHANGED tx
    /\ UNCHANGED <<daemon, resp, now, ticks, writes, db, logged, mu, conn, calls>>

\* return tx.Commit()
Commit(p) ==
    /\ pc[p] = "Commit"
    /\ conn = p
    /\ \E ok \in BOOLEAN :
        IF ok
        THEN /\ db' = tx
             /\ tx' = NULL
             /\ conn' = NULL
             /\ pc' = [pc EXCEPT ![p] = "Unlock"]
             /\ UNCHANGED op
        ELSE /\ op' = [op EXCEPT ![p].err = TRUE]
             /\ pc' = [pc EXCEPT ![p] = "Rollback"]
             /\ UNCHANGED <<db, tx, conn>>
    /\ UNCHANGED <<daemon, resp, now, ticks, writes, logged, mu, calls>>

\* defer tx.Rollback(), after a failed statement or a failed Commit
Rollback(p) ==
    /\ pc[p] = "Rollback"
    /\ conn = p
    /\ tx' = NULL
    /\ conn' = NULL
    /\ pc' = [pc EXCEPT ![p] = "Unlock"]
    /\ UNCHANGED <<daemon, resp, now, ticks, writes, db, logged, mu, op, calls>>

\* db.conn.Exec(INSERT INTO gpu_devices ... ON CONFLICT ...) for the next
\* device: a statement of its own, committed when it returns
ExecUpsert(p) ==
    /\ pc[p] = "Exec"
    /\ op[p].call.fn = "RegisterGPUDevices"
    /\ ConnFree
    /\ \E ok \in BOOLEAN :
        IF ok
        THEN /\ db' = [db EXCEPT !["gpu_devices"] =
                          BatchStmt(op[p].call, @, op[p].call.batch[op[p].i + 1])]
             /\ op' = [op EXCEPT ![p].i = @ + 1]
             /\ pc' = [pc EXCEPT ![p] =
                          IF op[p].i + 1 = Len(op[p].call.batch) THEN "Unlock" ELSE "Exec"]
        ELSE /\ op' = [op EXCEPT ![p].err = TRUE]
             /\ pc' = [pc EXCEPT ![p] = "Unlock"]
             /\ UNCHANGED db
    /\ UNCHANGED <<daemon, resp, now, ticks, writes, logged, mu, conn, tx, calls>>

\* db.conn.Exec(...) of WriteHostMetrics, RegisterNode, UpdateNodeSeen
ExecSingle(p) ==
    /\ pc[p] = "Exec"
    /\ op[p].call.fn \in SingleWrites
    /\ ConnFree
    /\ \E ok \in BOOLEAN :
        IF ok
        THEN /\ db' = SingleStmt(op[p].call, db, now)
             /\ UNCHANGED op
        ELSE /\ op' = [op EXCEPT ![p].err = TRUE]
             /\ UNCHANGED db
    /\ pc' = [pc EXCEPT ![p] = "Unlock"]
    /\ UNCHANGED <<daemon, resp, now, ticks, writes, logged, mu, conn, tx, calls>>

\* db.conn.QueryRow(SELECT COALESCE(MAX(ts), 0) FROM gpu_metrics_1m).Scan(&lastRolled)
QueryRow(p) ==
    /\ pc[p] = "QueryRow"
    /\ ConnFree
    /\ op' = [op EXCEPT ![p].lastRolled = MaxTs(db[Target(op[p].call.fn)])]
    /\ pc' = [pc EXCEPT ![p] = "Exec"]
    /\ UNCHANGED <<daemon, resp, now, ticks, writes, db, logged, mu, conn, tx, calls>>

\* db.conn.Exec(INSERT INTO gpu_metrics_1m ... SELECT ...), with lastRolled as read
ExecRollup(p) ==
    /\ pc[p] = "Exec"
    /\ op[p].call.fn \in Passes
    /\ ConnFree
    /\ LET pass == op[p].call.fn
           res == InsertSelect(Target(pass), db[Target(pass)],
                      SelectOf(pass, db[Source(pass)], op[p].lastRolled, op[p].call.beforeTs))
       IN  /\ db' = [db EXCEPT ![Target(pass)] = res.rows]
           /\ logged' = IF res.err THEN logged \cup {RollupError(pass)} ELSE logged
           /\ op' = [op EXCEPT ![p].err = res.err]
    /\ pc' = [pc EXCEPT ![p] = "Unlock"]
    /\ UNCHANGED <<daemon, resp, now, ticks, writes, mu, conn, tx, calls>>

\* db.conn.Exec(DELETE FROM table WHERE ts < ?)
ExecPrune(p) ==
    /\ pc[p] = "Exec"
    /\ op[p].call.fn = "prune"
    /\ ConnFree
    /\ db' = [db EXCEPT ![op[p].call.table] = Delete(@, op[p].call.beforeTs)]
    /\ pc' = [pc EXCEPT ![p] = "Unlock"]
    /\ UNCHANGED <<daemon, resp, now, ticks, writes, logged, mu, conn, tx, op, calls>>

\* defer db.mu.Unlock(), and the call returns
Unlock(p) ==
    /\ pc[p] = "Unlock"
    /\ mu' = FALSE
    /\ pc' = [pc EXCEPT ![p] = "idle"]
    /\ op' = [op EXCEPT ![p] = IdleOp]
    /\ UNCHANGED <<daemon, resp, now, ticks, writes, db, logged, conn, tx, calls>>

\* db.conn.Query(SELECT ...) of a read and the scan of its rows; the rows keep
\* the connection until they are closed
Query(p) ==
    /\ pc[p] = "Query"
    /\ ConnFree
    /\ conn' = p
    /\ op' = [op EXCEPT ![p].rows = QueryRows(op[p].call, db)]
    /\ pc' = [pc EXCEPT ![p] = "Return"]
    /\ UNCHANGED <<daemon, resp, now, ticks, writes, db, logged, mu, tx, calls>>

\* a read that returns without closing its rows keeps the connection
LeakRows(c, p) == c

\* defer rows.Close(): the connection of the rows of p goes back to the pool
CloseRows(c, p) == IF c = p THEN NULL ELSE c

\* a call that did not take the lock returns
Return(p) ==
    /\ pc[p] = "Return"
    /\ conn' = CloseRows(conn, p)
    /\ pc' = [pc EXCEPT ![p] = "idle"]
    /\ op' = [op EXCEPT ![p] = IdleOp]
    /\ UNCHANGED <<daemon, resp, now, ticks, writes, db, logged, mu, tx, calls>>

ConcNext ==
    \E p \in Procs :
        \/ Start(p)
        \/ Lock(p)
        \/ Begin(p)
        \/ ExecTx(p)
        \/ Commit(p)
        \/ Rollback(p)
        \/ ExecUpsert(p)
        \/ ExecSingle(p)
        \/ QueryRow(p)
        \/ ExecRollup(p)
        \/ ExecPrune(p)
        \/ Unlock(p)
        \/ Query(p)
        \/ Return(p)

ConcSpec == Init /\ [][ConcNext]_vars

(* ------------------- the API: handlers and queries -------------------- *)

\* the seconds a sample or a process snapshot stays current
Fresh == 30

\* the seconds a node stays online after it was last seen
OnlineFor == 60

\* selectHostResolution: the table for a time span
selectHostResolution(spanSec) ==
    IF spanSec <= 3600 THEN "host_metrics_raw"
    ELSE IF spanSec <= 86400 THEN "host_metrics_1m"
    ELSE "host_metrics_1h"

\* of the rows that are equal in every column, the one stored first
FirstCopies(rows) ==
    {r \in rows : ~ \E e \in rows : e.dup < r.dup /\ [e EXCEPT !.dup = r.dup] = r}

\* ORDER BY ts: the orders of the rows that ascend in ts (the order of rows
\* of equal ts is not determined; rows equal in every column are
\* interchangeable and taken in the order they were stored)
RECURSIVE OrderBy(_)
OrderBy(rows) ==
    IF rows = {} THEN {<<>>}
    ELSE LET first == FirstCopies({r \in rows : \A e \in rows : r.ts <= e.ts})
         IN  UNION {{<<r>> \o s : s \in OrderBy(rows \ {r})} : r \in first}

\* rows.Scan of a REAL column into an int field: database/sql formats the
\* float64 and parses the text as an integer, an error unless it is integral
ScanIntFails(v) == v.den # 1

\* the GPUMetrics struct scanGPUMetrics fills from a row of the table
\* (a float64 field holds a rational)
ScanGPURow(table, r) ==
    IF table = "gpu_metrics_raw"
    THEN [Timestamp |-> r.ts, NodeID |-> Coalesce(r.node_id), GPUID |-> r.gpu_id,
          GPUUtil |-> Rat(r.gpu_util, 1), Temperature |-> r.temperature]
    ELSE [Timestamp |-> r.ts, NodeID |-> Coalesce(r.node_id), GPUID |-> r.gpu_id,
          GPUUtil |-> r.gpu_util_avg, Temperature |-> r.temperature_avg.num]

\* scanGPUMetrics: the structs of the rows in order, or the first Scan error
scanGPUMetrics(table, rows) ==
    IF table # "gpu_metrics_raw" /\ \E i \in 1..Len(rows) : ScanIntFails(rows[i].temperature_avg)
    THEN [err |-> TRUE, metrics |-> <<>>]
    ELSE [err |-> FALSE, metrics |-> [i \in 1..Len(rows) |-> ScanGPURow(table, rows[i])]]

\* GetGPUMetrics(q) on the database d: the results it may return
GetGPUMetrics(q, d) ==
    LET table == selectResolution(q.To - q.From)
    IN  {scanGPUMetrics(table, s) :
            s \in OrderBy(QueryRows([fn |-> "GetGPUMetrics", q |-> q], d))}

\* the rows of the host table the WHERE clause of GetHostMetrics selects
HostRows(from, to, nodeID, d) ==
    {e \in d[selectHostResolution(to - from)] :
        /\ nodeID = "" \/ e.node_id = nodeID
        /\ e.ts >= from
        /\ e.ts <= to}

\* the HostMetrics struct GetHostMetrics fills from a row of the table
ScanHostRow(table, r) ==
    [Timestamp |-> r.ts, NodeID |-> r.node_id,
     CPUPercent |-> IF table = "host_metrics_raw" THEN Rat(r.cpu_percent, 1)
                    ELSE r.cpu_percent_avg]

\* GetHostMetrics(from, to, nodeID) on the database d: the results it may return
GetHostMetrics(from, to, nodeID, d) ==
    LET table == selectHostResolution(to - from)
    IN  {[err |-> FALSE, metrics |-> [i \in 1..Len(s) |-> ScanHostRow(table, s[i])]] :
            s \in OrderBy(HostRows(from, to, nodeID, d))}

\* a ranking in ascending ts: the oldest row of every partition
RowNumberOldest(rows, part) ==
    LET P == {part[r] : r \in rows}
        top(k) == FirstCopies({r \in rows : part[r] = k /\ \A e \in rows : part[e] = k => e.ts >= r.ts})
    IN  {{f[k] : k \in P} : f \in {g \in [P -> rows] : \A k \in P : g[k] \in top(k)}}

\* WHERE rn = 1 of ROW_NUMBER() OVER (PARTITION BY part ORDER BY ts DESC):
\* one row of the greatest ts of every partition (which one among rows of
\* equal ts is not determined; of rows equal in every column the one stored
\* first is taken); part maps a row to its partition
RowNumberOne(rows, part) ==
    LET P == {part[r] : r \in rows}
        top(k) == FirstCopies({r \in rows : part[r] = k /\ \A e \in rows : part[e] = k => e.ts <= r.ts})
    IN  {{f[k] : k \in P} : f \in {g \in [P -> rows] : \A k \in P : g[k] \in top(k)}}

\* GetLatestGPUMetrics at time t: the row sets it may return (as structs)
GetLatestGPUMetrics(d, t) ==
    LET recent == {r \in d["gpu_metrics_raw"] : r.ts >= t - Fresh}
        part == [r \in recent |-> <<Coalesce(r.node_id), r.gpu_id>>]
    IN  {{ScanGPURow("gpu_metrics_raw", r) : r \in S} : S \in RowNumberOne(recent, part)}

\* GetLatestHostMetrics at time t: the row sets it may return (as structs)
GetLatestHostMetrics(d, t) ==
    LET recent == {r \in d["host_metrics_raw"] : r.ts >= t - Fresh}
        part == [r \in recent |-> r.node_id]
    IN  {{ScanHostRow("host_metrics_raw", r) : r \in S} : S \in RowNumberOne(recent, part)}

\* GetAllGPUProcesses at time t: the row sets it may select
GetAllGPUProcesses(d, t) ==
    LET recent == {r \in d["gpu_processes"] : r.ts >= t - Fresh}
        part == [r \in recent |-> <<Coalesce(r.node_id), r.gpu_id, r.pid>>]
    IN  RowNumberOne(recent, part)

\* GetGPUProcesses(gpuID, nodeID) at time t: the rows it selects
GetGPUProcesses(gpuID, nodeID, d, t) ==
    LET of == {r \in d["gpu_processes"] :
                    r.gpu_id = gpuID /\ (nodeID = "" \/ Coalesce(r.node_id) = nodeID)}
    IN  {r \in of : r.ts >= t - Fresh /\ r.ts = MaxTs(of)}

\* a node list that counts the 60th second as online
GetNodesInclusive(d, t) ==
    {[NodeID |-> n.node_id, Hostname |-> n.hostname, GPUCount |-> n.gpu_count,
      FirstSeen |-> n.first_seen, LastSeen |-> n.last_seen,
      Online |-> (t - n.last_seen) <= OnlineFor] : n \in d["nodes"]}

\* GetNodes at time t: the nodes with their online flag
GetNodes(d, t) ==
    {[NodeID |-> n.node_id, Hostname |-> n.hostname, GPUCount |-> n.gpu_count,
      FirstSeen |-> n.first_seen, LastSeen |-> n.last_seen,
      Online |-> (t - n.last_seen) < OnlineFor] : n \in d["nodes"]}

\* the registrations an agent may post
Registrations ==
    {[NodeID |-> "n1", Hostname |-> "h1",
      Devices |-> <<[ID |-> 0, UUID |-> "GPU-a", Name |-> "A100"]>>],
     [NodeID |-> "n1", Hostname |-> "h2",
      Devices |-> <<[ID |-> 0, UUID |-> "GPU-b", Name |-> "H100"],
                    [ID |-> 1, UUID |-> "GPU-c", Name |-> "H100"]>>]}

\* a GPU sample of the agent n1
AgentSample(ts, temp) ==
    [Timestamp |-> ts, NodeID |-> "n1", GPUID |-> 0, GPUUtil |-> 20, Temperature |-> temp]

\* the GPU sample batches an agent may post at time t
AgentGPUBatches(t) == {<<AgentSample(t - 1, 45), AgentSample(t, 46)>>}

\* a process of the snapshot the agent n1 takes at ts
AgentProc(ts, pid) == [Timestamp |-> ts, NodeID |-> "n1", GPUID |-> 0, PID |-> pid]

\* the process snapshots an agent may post at time t
AgentProcBatches(t) == {<<AgentProc(t, 1), AgentProc(t, 2)>>, <<AgentProc(t, 1)>>}

\* A string of a request is the sequence of its characters.

Digits == <<"0", "1", "2", "3", "4", "5", "6", "7", "8", "9">>

IsDigit(c) == \E i \in 1..10 : Digits[i] = c

DigitOf(c) == (CHOOSE i \in 1..10 : Digits[i] = c) - 1

\* the number a string of digits denotes
RECURSIVE Number(_)
Number(str) ==
    IF str = <<>> THEN 0
    ELSE 10 * Number(SubSeq(str, 1, Len(str) - 1)) + DigitOf(str[Len(str)])

\* strconv.ParseInt(v, 10, 64) and strconv.Atoi(v): an optional sign and one
\* or more digits, anything else is an error
ParseInt(v) ==
    LET signed == v # <<>> /\ v[1] \in {"+", "-"}
        digits == IF signed THEN Tail(v) ELSE v
    IN  IF digits # <<>> /\ \A i \in 1..Len(digits) : IsDigit(digits[i])
        THEN [ok |-> TRUE,
              val |-> IF signed /\ v[1] = "-" THEN 0 - Number(digits) ELSE Number(digits)]
        ELSE [ok |-> FALSE, val |-> 0]

\* the seconds of a unit of time.ParseDuration
UnitSeconds(u) == CASE u = "s" -> 1 [] u = "m" -> 60 [] u = "h" -> 3600

\* time.ParseDuration(v) for a string of digits and one unit s, m or h, with
\* int64(d.Seconds()); digits without a unit and any other string are errors
ParseDuration(v) ==
    IF /\ Len(v) >= 2
       /\ v[Len(v)] \in {"s", "m", "h"}
       /\ \A i \in 1..(Len(v) - 1) : IsDigit(v[i])
    THEN [ok |-> TRUE, val |-> Number(SubSeq(v, 1, Len(v) - 1)) * UnitSeconds(v[Len(v)])]
    ELSE [ok |-> FALSE, val |-> 0]

\* parseTimeRange(r) at time t: to, from and range of the query string r
parseTimeRange(r, t) ==
    LET to == IF r.to # <<>> /\ ParseInt(r.to).ok THEN ParseInt(r.to).val ELSE t
        from == IF r.from # <<>> /\ ParseInt(r.from).ok THEN ParseInt(r.from).val
                ELSE to - 300
    IN  [from |-> IF r.range # <<>> /\ ParseDuration(r.range).ok
                  THEN to - ParseDuration(r.range).val ELSE from,
         to |-> to]

\* the range parameters of the time-series requests
Ranges == {<<"9", "0", "0", "s">>, <<"1", "h">>, <<"3", "6", "0", "1", "s">>,
           <<"2", "4", "h">>, <<"8", "6", "4", "0", "1", "s">>}

\* the time-series requests: {id} of the path and the query string
Requests ==
    {[id |-> <<"0">>, node |-> "", from |-> <<>>, to |-> <<>>, range |-> v] : v \in Ranges}
    \cup {[id |-> <<"0">>, node |-> "n1", from |-> <<>>, to |-> <<>>, range |-> v] :
            v \in {<<"9", "0", "0", "s">>, <<"2", "4", "h">>}}
    \cup {[id |-> <<"0">>, node |-> "", from |-> <<"7", "2", "0", "0">>,
            to |-> <<"7", "3", "0", "0">>, range |-> <<>>],
           [id |-> <<"x">>, node |-> "", from |-> <<>>, to |-> <<>>, range |-> <<"1", "h">>],
           [id |-> <<"0">>, node |-> "", from |-> <<"a", "b", "c">>, to |-> <<>>, range |-> <<>>],
           [id |-> <<"0">>, node |-> "", from |-> <<>>, to |-> <<"1", "e", "3">>, range |-> <<>>],
           [id |-> <<"0">>, node |-> "", from |-> <<>>, to |-> <<>>, range |-> <<"1", "5">>]}

\* the database after the store call on the database d at time t
StoreCall(call, d, t) ==
    IF call.fn \in SingleWrites THEN SingleStmt(call, d, t)
    ELSE [d EXCEPT ![BatchTable(call.fn)] = BatchRows(call, @, Len(call.batch))]

\* the database after a write call that returns err: a failed batch is rolled
\* back and a failed statement writes nothing
Written(call, err, d, t) == IF err THEN d ELSE StoreCall(call, d, t)

\* the status of the response: httpError(w, ..., 500) or WriteHeader(200)
StatusOf(err) == IF err THEN 500 ELSE 200

\* a handler that updates last_seen before it looks at the error of the write
HeartbeatAlways(err, nodeID, d, t) ==
    StoreCall([fn |-> "UpdateNodeSeen", nodeID |-> nodeID], d, t)

\* s.store.UpdateNodeSeen(nodeID), which the handler reaches when the write
\* returned no error
Heartbeat(err, nodeID, d, t) ==
    IF err THEN d ELSE StoreCall([fn |-> "UpdateNodeSeen", nodeID |-> nodeID], d, t)

\* the snapshots the handler passes to s.hub.Broadcast
Broadcasts(err, type, nodeID) ==
    IF err THEN <<>> ELSE <<[Type |-> type, NodeID |-> nodeID]>>

\* time passes between two requests
ApiTick ==
    /\ ticks < MaxApiTicks
    /\ \E s \in ApiSteps : now' = now + s
    /\ ticks' = ticks + 1
    /\ UNCHANGED <<daemon, writes, db, logged, goroutines, resp>>

\* POST /api/v1/ingest/register: RegisterNode, then RegisterGPUDevices
handleIngestRegister ==
    /\ writes < MaxRequests
    /\ \E payload \in Registrations :
        LET d1 == StoreCall([fn |-> "RegisterNode", nodeID |-> payload.NodeID,
                             hostname |-> payload.Hostname,
                             gpuCount |-> Len(payload.Devices)], db, now)
        IN  /\ db' = StoreCall([fn |-> "RegisterGPUDevices", nodeID |-> payload.NodeID,
                                batch |-> payload.Devices], d1, now)
            /\ resp' = [at |-> now, fn |-> "handleIngestRegister", body |-> payload]
    /\ writes' = writes + 1
    /\ UNCHANGED <<daemon, now, ticks, logged, goroutines>>

\* POST /api/v1/ingest/gpu-metrics: WriteGPUMetrics, then UpdateNodeSeen of
\* the node of the first sample
handleIngestGPUMetrics ==
    /\ writes < MaxRequests
    /\ \E metrics \in AgentGPUBatches(now), err \in BOOLEAN :
        LET d1 == Written([fn |-> "WriteGPUMetrics", batch |-> metrics], err, db, now)
            seen == Len(metrics) > 0
        IN  /\ db' = IF seen THEN Heartbeat(err, metrics[1].NodeID, d1, now) ELSE d1
            /\ resp' = [at |-> now, fn |-> "handleIngestGPUMetrics", body |-> metrics,
                        err |-> err, status |-> StatusOf(err),
                        broadcast |-> IF seen
                                      THEN Broadcasts(err, "gpu_metrics", metrics[1].NodeID)
                                      ELSE <<>>]
    /\ writes' = writes + 1
    /\ UNCHANGED <<daemon, now, ticks, logged, goroutines>>

\* POST /api/v1/ingest/host-metrics: WriteHostMetrics, then UpdateNodeSeen
handleIngestHostMetrics ==
    /\ writes < MaxRequests
    /\ \E err \in BOOLEAN :
        LET m == [Timestamp |-> now, NodeID |-> "n1", CPUPercent |-> 50]
            d1 == Written([fn |-> "WriteHostMetrics", m |-> m], err, db, now)
        IN  /\ db' = Heartbeat(err, m.NodeID, d1, now)
            /\ resp' = [at |-> now, fn |-> "handleIngestHostMetrics", body |-> m,
                        err |-> err, status |-> StatusOf(err),
                        broadcast |-> Broadcasts(err, "host_metrics", m.NodeID)]
    /\ writes' = writes + 1
    /\ UNCHANGED <<daemon, now, ticks, logged, goroutines>>

\* POST /api/v1/ingest/gpu-processes: WriteGPUProcesses, then UpdateNodeSeen
\* of the node of the first process
handleIngestGPUProcesses ==
    /\ writes < MaxRequests
    /\ \E procs \in AgentProcBatches(now), err \in BOOLEAN :
        LET d1 == Written([fn |-> "WriteGPUProcesses", batch |-> procs], err, db, now)
            seen == Len(procs) > 0
        IN  /\ db' = IF seen THEN Heartbeat(err, procs[1].NodeID, d1, now) ELSE d1
            /\ resp' = [at |-> now, fn |-> "handleIngestGPUProcesses", body |-> procs,
                        err |-> err, status |-> StatusOf(err),
                        broadcast |-> IF seen
                                      THEN Broadcasts(err, "gpu_processes", procs[1].NodeID)
                                      ELSE <<>>]
    /\ writes' = writes + 1
    /\ UNCHANGED <<daemon, now, ticks, logged, goroutines>>

\* the standalone collector samples the GPUs: WriteGPUMetrics, then
\* WriteGPUProcesses when there are processes
collectGPU ==
    /\ writes < MaxRequests
    /\ \E procs \in {<<>>, <<[Timestamp |-> now, NodeID |-> "", GPUID |-> 0, PID |-> 1]>>} :
        LET metrics == <<[Timestamp |-> now, NodeID |-> "", GPUID |-> 0,
                          GPUUtil |-> 20, Temperature |-> 45]>>
            d1 == StoreCall([fn |-> "WriteGPUMetrics", batch |-> metrics], db, now)
        IN  /\ db' = IF Len(procs) > 0
                     THEN StoreCall([fn |-> "WriteGPUProcesses", batch |-> procs], d1, now)
                     ELSE d1
            /\ resp' = [at |-> now, fn |-> "collectGPU", body |-> metrics]
    /\ writes' = writes + 1
    /\ UNCHANGED <<daemon, now, ticks, logged, goroutines>>

\* the standalone collector samples the host: WriteHostMetrics
collectHost ==
    /\ writes < MaxRequests
    /\ LET m == [Timestamp |-> now, NodeID |-> "local", CPUPercent |-> 50]
       IN  /\ db' = StoreCall([fn |-> "WriteHostMetrics", m |-> m], db, now)
           /\ resp' = [at |-> now, fn |-> "collectHost", body |-> m]
    /\ writes' = writes + 1
    /\ UNCHANGED <<daemon, now, ticks, logged, goroutines>>

\* the retention loop runs one cycle between two requests
retentionCycle ==
    /\ writes < MaxRequests
    /\ LET st == AfterCalls(Len(Cycle), [db |-> db, logged |-> logged], now)
       IN  /\ db' = st.db
           /\ logged' = st.logged
    /\ resp' = [at |-> now, fn |-> "doRetention"]
    /\ writes' = writes + 1
    /\ UNCHANGED <<daemon, now, ticks, goroutines>>

\* handleGPUMetrics(w, r, gpuID): parseTimeRange, then GetGPUMetrics
handleGPUMetrics(gpuID, r) ==
    /\ \E tr \in {parseTimeRange(r, now)} :
       \E q \in {[GPUID |-> gpuID, NodeID |-> r.node, From |-> tr.from, To |-> tr.to]} :
       \E out \in GetGPUMetrics(q, db) :
             resp' = [at |-> now, fn |-> "handleGPUMetrics", req |-> r, q |-> q, out |-> out,
                      called |-> <<[fn |-> "GetGPUMetrics", q |-> q]>>,
                      status |-> StatusOf(out.err)]
    /\ UNCHANGED <<daemon, now, ticks, writes, db, logged, goroutines>>

\* GET /api/v1/gpus/{id}/metrics: handleGPURoute parses {id} and calls
\* handleGPUMetrics
handleGPURoute ==
    \E r \in Requests :
        IF ParseInt(r.id).ok
        THEN handleGPUMetrics(ParseInt(r.id).val, r)
        ELSE /\ resp' = [at |-> now, fn |-> "handleGPURoute", req |-> r, called |-> <<>>,
                         status |-> 400]
             /\ UNCHANGED <<daemon, now, ticks, writes, db, logged, goroutines>>

\* GET /api/v1/host/metrics: parseTimeRange, then GetHostMetrics
handleHostMetrics ==
    /\ \E r \in Requests :
        \E tr \in {parseTimeRange(r, now)} :
        \E q \in {[GPUID |-> 0, NodeID |-> r.node, From |-> tr.from, To |-> tr.to]} :
        \E out \in GetHostMetrics(q.From, q.To, q.NodeID, db) :
              resp' = [at |-> now, fn |-> "handleHostMetrics", req |-> r, q |-> q, out |-> out,
                       called |-> <<[fn |-> "GetHostMetrics", q |-> q]>>,
                       status |-> StatusOf(out.err)]
    /\ UNCHANGED <<daemon, now, ticks, writes, db, logged, goroutines>>

\* GET /api/v1/status without a node filter: the latest sample of every GPU
\* and of every host, the devices, the current processes and the nodes
handleStatus ==
    /\ \E gpus \in GetLatestGPUMetrics(db, now) : \E hosts \in GetLatestHostMetrics(db, now) :
       \E procs \in GetAllGPUProcesses(db, now) :
        resp' = [at |-> now, fn |-> "handleStatus", gpus |-> gpus, hosts |-> hosts,
                 devices |-> QueryRows([fn |-> "GetGPUDevices", nodeID |-> ""], db),
                 processes |-> procs, nodes |-> GetNodes(db, now)]
    /\ UNCHANGED <<daemon, now, ticks, writes, db, logged, goroutines>>

\* GET /api/v1/gpus/{id}/processes
handleGPUProcesses ==
    /\ \E n \in {"", "n1"} :
        resp' = [at |-> now, fn |-> "handleGPUProcesses", gpuID |-> 0, nodeID |-> n,
                 procs |-> GetGPUProcesses(0, n, db, now)]
    /\ UNCHANGED <<daemon, now, ticks, writes, db, logged, goroutines>>

\* GET /api/v1/nodes
handleNodes ==
    /\ resp' = [at |-> now, fn |-> "handleNodes", nodes |-> GetNodes(db, now)]
    /\ UNCHANGED <<daemon, now, ticks, writes, db, logged, goroutines>>

\* the time-series endpoints
SeriesNext ==
    \/ ApiTick
    \/ handleIngestGPUMetrics
    \/ handleIngestHostMetrics
    \/ retentionCycle
    \/ handleGPURoute
    \/ handleHostMetrics

SeriesSpec == Init /\ [][SeriesNext]_vars

\* the views of the current state
LatestNext ==
    \/ ApiTick
    \/ handleIngestGPUMetrics
    \/ handleIngestHostMetrics
    \/ handleIngestGPUProcesses
    \/ collectGPU
    \/ handleStatus
    \/ handleGPUProcesses

LatestSpec == Init /\ [][LatestNext]_vars

\* the node registry
NodeNext ==
    \/ ApiTick
    \/ handleIngestRegister
    \/ handleIngestGPUMetrics
    \/ handleIngestHostMetrics
    \/ handleIngestGPUProcesses
    \/ collectGPU
    \/ collectHost
    \/ handleNodes

NodeSpec == Init /\ [][NodeNext]_vars

(* ------------------------ the retention loop -------------------------- *)

\* the period of the ticker of RunRetention, in seconds
RetentionInterval == 60

\* the log line of a failed prune
PruneError(table) == "prune " \o table \o " error"

\* the log line of the k-th call of doRetention when its statement fails
CallError(k) ==
    IF Cycle[k].fn = "prune" THEN PruneError(Cycle[k].table) ELSE RollupError(Cycle[k].fn)

\* the outcomes of a statement after f failures: it fails once the database
\* is closed, and it may fail for a reason outside the store
OutcomesAt(f) == IF closed THEN {FALSE} ELSE IF f < MaxFaults THEN BOOLEAN ELSE {TRUE}

Outcomes == OutcomesAt(faults)

\* a cycle that returns at its first failed call
ReturnOnError(k, err) == IF err THEN Len(Cycle) + 1 ELSE k + 1

\* the call doRetention makes after its k-th call, err telling whether that
\* call failed: the calls return nothing and the next one follows
NextCall(k, err) == k + 1

\* doRetention starts: it reads the clock
StartCycle(r) ==
    [r EXCEPT !.pc = "doRetention", !.k = 1, !.now = now, !.cycles = @ + 1,
              !.ran = {}, !.failed = {}]

\* a loop that waits for its first tick
WaitFirst(r) == [r EXCEPT !.pc = "select"]

\* db.doRetention(cfg) before the loop
FirstCycle(r) == StartCycle(r)

\* go db.RunRetention(ctx, cfg): the ticker is made and the first cycle starts
RunRetention ==
    /\ ~exited
    /\ retention.pc = "start"
    /\ retention' = FirstCycle(retention)
    /\ UNCHANGED <<twin, peers, now, ticks, writes, db, logged, goroutines, resp,
                   ctxDone, closed, exited, tickerC, collector, alerts, faults>>

\* the next call of the cycle in progress: a pass or a prune, its error logged
retentionCall ==
    /\ ~exited
    /\ retention.pc = "doRetention"
    /\ \E ok \in Outcomes :
        LET k == retention.k
            post == Call(k, [db |-> db, logged |-> logged], retention.now)
            err == ~ok \/ (Cycle[k].fn \in Passes /\
                            Rollup(Cycle[k].fn, db, retention.now - Settle(Cycle[k].fn)).err)
        IN  /\ db' = IF ok THEN post.db ELSE db
            /\ logged' = IF ok THEN post.logged ELSE logged \cup {CallError(k)}
            /\ faults' = IF ok \/ closed THEN faults ELSE faults + 1
            /\ retention' = [retention EXCEPT
                    !.ran = @ \cup {k},
                    !.failed = IF err THEN @ \cup {k} ELSE @,
                    !.k = NextCall(k, err),
                    !.pc = IF NextCall(k, err) > Len(Cycle) THEN "select" ELSE @]
    /\ UNCHANGED <<twin, peers, now, ticks, writes, goroutines, resp,
                   ctxDone, closed, exited, tickerC, collector, alerts>>

\* select: case <-ticker.C
receiveTick ==
    /\ ~exited
    /\ retention.pc = "select"
    /\ tickerC["RunRetention"] = 1
    /\ tickerC' = [tickerC EXCEPT !["RunRetention"] = 0]
    /\ retention' = StartCycle([retention EXCEPT !.received = @ + 1])
    /\ UNCHANGED <<twin, peers, now, ticks, writes, db, logged, goroutines, resp,
                   ctxDone, closed, exited, collector, alerts, faults>>

\* select: case <-ctx.Done(); when a tick waits as well, select takes either
receiveDone ==
    /\ ~exited
    /\ retention.pc = "select"
    /\ ctxDone
    /\ retention' = [retention EXCEPT !.pc = "returned"]
    /\ UNCHANGED <<twin, peers, now, ticks, writes, db, logged, goroutines, resp,
                   ctxDone, closed, exited, tickerC, collector, alerts, faults>>

\* the period of the ticker has passed: the tick goes into the channel, or is
\* dropped when one waits there
RetentionTick ==
    /\ ~exited
    /\ retention.pc # "returned"
    /\ ticks < MaxPeriods
    /\ now' = now + RetentionInterval
    /\ ticks' = ticks + 1
    /\ tickerC' = [tickerC EXCEPT !["RunRetention"] = 1]
    /\ UNCHANGED <<twin, peers, writes, db, logged, goroutines, resp,
                   ctxDone, closed, exited, retention, collector, alerts, faults>>

\* SIGINT, SIGTERM or a failed ListenAndServe: cancel()
cancel ==
    /\ ~ctxDone
    /\ ctxDone' = TRUE
    /\ UNCHANGED <<twin, peers, now, ticks, writes, db, logged, goroutines, resp,
                   closed, exited, tickerC, retention, collector, alerts, faults>>

\* go func() { <-ctx.Done(); db.Close() }()
Close ==
    /\ ~exited
    /\ ctxDone
    /\ ~closed
    /\ closed' = TRUE
    /\ UNCHANGED <<twin, peers, now, ticks, writes, db, logged, goroutines, resp,
                   ctxDone, exited, tickerC, retention, collector, alerts, faults>>

\* main: <-ctx.Done(), then it returns and the process with its goroutines ends
exit ==
    /\ ~exited
    /\ ctxDone
    /\ exited' = TRUE
    /\ UNCHANGED <<twin, peers, now, ticks, writes, db, logged, goroutines, resp,
                   ctxDone, closed, tickerC, retention, collector, alerts, faults>>

\* the collector writes the sample of its device while the process runs
collectorWrites ==
    /\ ~exited
    /\ ~closed
    /\ writes < MaxWrites
    /\ db' = StoreCall([fn |-> "WriteGPUMetrics", batch |-> <<ConcSample(0, 45)>>], db, now)
    /\ writes' = writes + 1
    /\ UNCHANGED <<now, ticks, logged, goroutines, resp, daemon>>

RetentionNext ==
    \/ RunRetention
    \/ retentionCall
    \/ receiveTick
    \/ receiveDone
    \/ RetentionTick
    \/ cancel
    \/ Close
    \/ exit
    \/ collectorWrites

RetentionSpec == Init /\ [][RetentionNext]_vars

(* ------------------------ the collection loop ------------------------- *)

\* the seconds that pass while the collector does not run
Elapsed == {1, 5}

\* -collect-interval, in seconds
CollectInterval == 1

\* -host-interval, in seconds
HostInterval == 5

\* the clock passes a multiple of the interval on its way from t to u
Fires(interval, t, u) == (u - T0) \div interval > (t - T0) \div interval

\* the sample of the device, the processes and the host sample taken at time t
CollectedGPU(t) ==
    <<[Timestamp |-> t, NodeID |-> "", GPUID |-> 0, GPUUtil |-> 20, Temperature |-> 45]>>

CollectedProcs(t) == {<<>>, <<[Timestamp |-> t, NodeID |-> "", GPUID |-> 0, PID |-> 1]>>}

CollectedHost(t) == [Timestamp |-> t, NodeID |-> "local", CPUPercent |-> 50]

\* a write call of the collector on the database d at time t: it stores its
\* rows, or it fails, stores nothing and its error is logged
SinkWrite(call, ok, st, t, msg) ==
    IF ok THEN [db |-> StoreCall(call, st.db, t), logged |-> st.logged, errors |-> st.errors]
    ELSE [db |-> st.db, logged |-> st.logged \cup {msg}, errors |-> st.errors + 1]

\* a loop that ends when a write has failed
StopOnError(err) == IF err THEN "returned" ELSE "select"

\* collectGPU and collectHost return nothing: Run goes back to its select
AfterCollect(err) == "select"

\* time passes: the tickers whose interval has passed put a tick into their
\* channels (a tick that finds one waiting is dropped)
CollectorTick ==
    /\ ~exited
    /\ collector.pc # "returned"
    /\ ticks < MaxPeriods
    /\ \E d \in Elapsed :
        /\ now' = now + d
        /\ tickerC' = [tickerC EXCEPT
                !["gpuTicker"] = IF Fires(CollectInterval, now, now + d) THEN 1 ELSE @,
                !["hostTicker"] = IF Fires(HostInterval, now, now + d) THEN 1 ELSE @]
    /\ ticks' = ticks + 1
    /\ UNCHANGED <<twin, peers, writes, db, logged, goroutines, resp,
                   ctxDone, closed, exited, retention, collector, alerts, faults>>

\* select: case <-gpuTicker.C: c.collectGPU()
caseGPUTicker ==
    /\ ~exited
    /\ collector.pc = "select"
    /\ tickerC["gpuTicker"] = 1
    /\ \E ok1 \in OutcomesAt(faults), procs \in CollectedProcs(now) :
       \E ok2 \in OutcomesAt(IF ok1 \/ closed THEN faults ELSE faults + 1) :
        LET st0 == [db |-> db, logged |-> logged, errors |-> 0]
            st1 == SinkWrite([fn |-> "WriteGPUMetrics", batch |-> CollectedGPU(now)],
                             ok1, st0, now, "error writing GPU metrics")
            st2 == IF Len(procs) > 0
                   THEN SinkWrite([fn |-> "WriteGPUProcesses", batch |-> procs],
                                  ok2, st1, now, "error writing GPU processes")
                   ELSE st1
        IN  /\ Len(procs) = 0 => ok2
            /\ db' = st2.db
            /\ logged' = st2.logged
            /\ faults' = IF closed THEN faults ELSE faults + st2.errors
            /\ collector' = [collector EXCEPT
                    !.pc = AfterCollect(st2.errors > 0),
                    !.received = @ + 1,
                    !.errors = @ + st2.errors,
                    !.errAt = IF st2.errors > 0 THEN now ELSE @]
    /\ tickerC' = [tickerC EXCEPT !["gpuTicker"] = 0]
    /\ UNCHANGED <<twin, peers, now, ticks, writes, goroutines, resp,
                   ctxDone, closed, exited, retention, alerts>>

\* select: case <-hostTicker.C: c.collectHost()
caseHostTicker ==
    /\ ~exited
    /\ collector.pc = "select"
    /\ tickerC["hostTicker"] = 1
    /\ \E ok \in OutcomesAt(faults) :
        LET st0 == [db |-> db, logged |-> logged, errors |-> 0]
            st1 == SinkWrite([fn |-> "WriteHostMetrics", m |-> CollectedHost(now)],
                             ok, st0, now, "error writing host metrics")
        IN  /\ db' = st1.db
            /\ logged' = st1.logged
            /\ faults' = IF closed THEN faults ELSE faults + st1.errors
            /\ collector' = [collector EXCEPT
                    !.pc = AfterCollect(st1.errors > 0),
                    !.received = @ + 1,
                    !.errors = @ + st1.errors,
                    !.errAt = IF st1.errors > 0 THEN now ELSE @]
    /\ tickerC' = [tickerC EXCEPT !["hostTicker"] = 0]
    /\ UNCHANGED <<twin, peers, now, ticks, writes, goroutines, resp,
                   ctxDone, closed, exited, retention, alerts>>

\* select: case <-ctx.Done(): return
caseDone ==
    /\ ~exited
    /\ collector.pc = "select"
    /\ ctxDone
    /\ collector' = [collector EXCEPT !.pc = "returned"]
    /\ UNCHANGED <<twin, peers, now, ticks, writes, db, logged, goroutines, resp,
                   ctxDone, closed, exited, tickerC, retention, alerts, faults>>

CollectorNext ==
    \/ CollectorTick
    \/ caseGPUTicker
    \/ caseHostTicker
    \/ caseDone
    \/ cancel
    \/ Close
    \/ exit

CollectorSpec == Init /\ [][CollectorNext]_vars

(* ------------------------- the alert evaluator ------------------------ *)

\* the metrics a threshold can be set for, in the order they are evaluated
Kinds == <<"temperature", "gpu_util", "mem_util">>

\* the threshold configurations (0 = disabled)
Thresholds ==
    {[temperature |-> 0, gpu_util |-> 0, mem_util |-> 0],
     [temperature |-> 80, gpu_util |-> 0, mem_util |-> 0],
     [temperature |-> 85, gpu_util |-> 20, mem_util |-> 0]}

\* a GPU sample of the agent n1 with its temperature and memory utilization
AlertSample(ts, gpu, temp) ==
    [Timestamp |-> ts, NodeID |-> "n1", GPUID |-> gpu, GPUUtil |-> 20,
     Temperature |-> temp, MemUtil |-> 10]

\* the GPU sample batches ingested at time t
AlertBatches(t) ==
    {<<AlertSample(t, 0, 85)>>, <<AlertSample(t, 0, 60)>>,
     <<AlertSample(t, 0, 60), AlertSample(t, 1, 85)>>}

\* the value of the metric kind in the sample m
ValueOf(m, kind) ==
    CASE kind = "temperature" -> m.Temperature
      [] kind = "gpu_util"    -> m.GPUUtil
      [] kind = "mem_util"    -> m.MemUtil

\* every threshold is 0
AllDisabled(th) == \A i \in 1..Len(Kinds) : th[Kinds[i]] = 0

\* the alerts of one sample: one for each enabled threshold the sample reaches
RECURSIVE AlertsOf(_, _, _)
AlertsOf(m, th, i) ==
    IF i > Len(Kinds) THEN <<>>
    ELSE (IF th[Kinds[i]] # 0 /\ ValueOf(m, Kinds[i]) >= th[Kinds[i]]
          THEN <<[node_id |-> m.NodeID, gpu_id |-> m.GPUID, metric |-> Kinds[i],
                  value |-> ValueOf(m, Kinds[i]), threshold |-> th[Kinds[i]]]>>
          ELSE <<>>) \o AlertsOf(m, th, i + 1)

\* evaluate(latest_gpu_samples, thresholds): the alert records of the samples
RECURSIVE evaluate(_, _)
evaluate(samples, th) ==
    IF samples = <<>> THEN <<>>
    ELSE AlertsOf(Head(samples), th, 1) \o evaluate(Tail(samples), th)

\* an evaluator that adds the new alerts to the active ones
Accumulate(active, found) == active \o found

\* the output of an evaluation replaces the active set
Replace(active, found) == found

\* an evaluator that clears the active set when every threshold is disabled
Cleared(active) == <<>>

\* with every threshold disabled the evaluation is skipped
Skipped(active) == active

\* GPU samples are ingested: they are written to the raw tier and evaluated
ingestGPUSamples ==
    /\ writes < MaxRequests
    /\ \E samples \in AlertBatches(now), th \in Thresholds :
        /\ db' = StoreCall([fn |-> "WriteGPUMetrics", batch |-> samples], db, now)
        /\ alerts' = IF AllDisabled(th) THEN Skipped(alerts)
                                        ELSE Replace(alerts, evaluate(samples, th))
        /\ resp' = [at |-> now, fn |-> "ingestGPUSamples", samples |-> samples,
                    thresholds |-> th, active |-> alerts]
    /\ writes' = writes + 1
    /\ UNCHANGED <<twin, peers, now, ticks, logged, goroutines,
                   ctxDone, closed, exited, tickerC, retention, collector, faults>>

\* activeAlerts(): GET /api/v1/alerts
activeAlerts ==
    /\ resp' = [at |-> now, fn |-> "activeAlerts", alerts |-> alerts]
    /\ UNCHANGED <<now, ticks, writes, db, logged, goroutines, daemon>>

AlertNext ==
    \/ ApiTick
    \/ ingestGPUSamples
    \/ activeAlerts

AlertSpec == Init /\ [][AlertNext]_vars

(* ------------------ two executions, one without a node --------------- *)

\* The same calls are made on two stores: db takes the samples of every node,
\* twin takes the same calls without the samples of the node NodeB.

\* the node whose samples the second execution does not get
NodeB == "n1"

TwinTick ==
    /\ ticks < MaxPeriods
    /\ \E d \in Steps : now' = now + d
    /\ ticks' = ticks + 1
    /\ UNCHANGED <<peers, ctxDone, closed, exited, tickerC, retention, collector, alerts,
                   faults, twin, resp, writes, db, logged, goroutines>>

\* WriteGPUMetrics with one sample of one node, in both executions
TwinWriteGPUMetrics ==
    /\ writes < MaxWrites
    /\ \E m \in GPUSamples(now) :
        LET call == [fn |-> "WriteGPUMetrics", batch |-> <<m>>]
        IN  /\ db' = StoreCall(call, db, now)
            /\ twin' = IF m.NodeID = NodeB THEN twin ELSE StoreCall(call, twin, now)
    /\ writes' = writes + 1
    /\ UNCHANGED <<peers, ctxDone, closed, exited, tickerC, retention, collector, alerts,
                   faults, resp, now, ticks, logged, goroutines>>

\* WriteHostMetrics of one node, in both executions
TwinWriteHostMetrics ==
    /\ writes < MaxWrites
    /\ \E m \in HostSamples(now) :
        LET call == [fn |-> "WriteHostMetrics", m |-> m]
        IN  /\ db' = StoreCall(call, db, now)
            /\ twin' = IF m.NodeID = NodeB THEN twin ELSE StoreCall(call, twin, now)
    /\ writes' = writes + 1
    /\ UNCHANGED <<peers, ctxDone, closed, exited, tickerC, retention, collector, alerts,
                   faults, resp, now, ticks, logged, goroutines>>

\* doRetention at the same time in both executions
TwinRetention ==
    /\ LET st == AfterCalls(Len(Cycle), [db |-> db, logged |-> logged], now)
       IN  /\ db' = st.db
           /\ logged' = st.logged
    /\ twin' = AfterCalls(Len(Cycle), [db |-> twin, logged |-> {}], now).db
    /\ UNCHANGED <<peers, ctxDone, closed, exited, tickerC, retention, collector, alerts,
                   faults, resp, now, ticks, writes, goroutines>>

TwinNext ==
    \/ TwinTick
    \/ TwinWriteGPUMetrics
    \/ TwinWriteHostMetrics
    \/ TwinRetention

TwinSpec == Init /\ [][TwinNext]_vars

(* ----------------------- the agent's registration -------------------- *)

\* the pause of Register after a failed attempt, in seconds
RetryAfter == 5

\* the Timeout of the agent's http.Client, in seconds
ClientTimeout == 10

\* What the hub does with a request: "up" registers the agent and answers
\* 200, "slow" registers it and answers after the client has given up,
\* "failing" answers 500 without registering, "down" is not reachable.
HubStates == {"up", "slow", "failing", "down"}

\* every variable but those of the agent and ctx
server == <<now, ticks, writes, db, logged, goroutines, resp, closed, exited,
            tickerC, retention, collector, alerts, faults, twin>>

\* the ends a request may take after secs seconds with the hub in state h
Replies(h, secs) ==
    CASE h = "up" -> {[accepted |-> TRUE, err |-> FALSE, status |-> 200]}
      [] h = "slow" -> IF secs >= ClientTimeout
                       THEN {[accepted |-> TRUE, err |-> TRUE, status |-> 0]}
                       ELSE {}
      [] h = "failing" -> {[accepted |-> FALSE, err |-> FALSE, status |-> 500]}
      [] OTHER -> {[accepted |-> FALSE, err |-> TRUE, status |-> 0]}

\* a post that looks at the transport error only
postTransportError(reply) == reply.err

\* post: TRUE when it returns an error
postError(reply) == reply.err \/ reply.status >= 400

\* time.After(d): its channel is ready once d seconds have passed
timeAfter(secs, d) == secs >= d

\* a.post(...) of Register: the request goes out
RegisterPost ==
    /\ agent.pc = "post"
    /\ agent' = [agent EXCEPT !.pc = "client.Post", !.secs = 0,
                              !.attempts = IF @ < MaxAttempts THEN @ + 1 ELSE @]
    /\ UNCHANGED <<server, ctxDone, hub, ui>>

\* the request ends and post returns: Register returns nil, or logs the
\* failure and goes to its select
ClientPost ==
    /\ agent.pc = "client.Post"
    /\ \E reply \in Replies(agent.hub, agent.secs) :
        agent' = IF postError(reply)
                 THEN [agent EXCEPT !.pc = "select", !.secs = 0,
                                    !.accepted = @ \/ reply.accepted]
                 ELSE [agent EXCEPT !.pc = "returned", !.result = "nil",
                                    !.accepted = @ \/ reply.accepted]
    /\ UNCHANGED <<server, ctxDone, hub, ui>>

\* a second passes while the request is out or the select waits
AgentTick ==
    /\ \/ agent.pc = "client.Post" /\ agent.secs < ClientTimeout
       \/ agent.pc = "select" /\ agent.secs < RetryAfter
    /\ agent' = [agent EXCEPT !.secs = @ + 1]
    /\ UNCHANGED <<server, ctxDone, hub, ui>>

\* the select of Register: it returns ctx.Err() when ctx.Done() is closed,
\* it goes round the loop when the timer has fired, either when both are ready
RegisterSelect ==
    /\ agent.pc = "select"
    /\ \/ /\ ctxDone
          /\ agent' = [agent EXCEPT !.pc = "returned", !.result = "ctx.Err"]
       \/ /\ timeAfter(agent.secs, RetryAfter)
          /\ agent' = [agent EXCEPT !.pc = "post", !.secs = 0]
    /\ UNCHANGED <<server, ctxDone, hub, ui>>

\* the hub starts, stops, loses its disk or gets slow
HubChange ==
    /\ agent.pc # "returned"
    /\ \E h \in HubStates \ {agent.hub} : agent' = [agent EXCEPT !.hub = h]
    /\ UNCHANGED <<server, ctxDone, hub, ui>>

\* a step of the goroutine of Register or of its clock
RegisterStep == RegisterPost \/ ClientPost \/ AgentTick \/ RegisterSelect

RegisterNext ==
    \/ RegisterPost
    \/ ClientPost
    \/ AgentTick
    \/ RegisterSelect
    \/ HubChange
    \/ cancel

\* the goroutine of Register is scheduled, time passes and every request ends
RegisterSpec == Init /\ [][RegisterNext]_vars /\ WF_vars(RegisterStep)

(* --------------------------- the WebSocket hub ------------------------ *)

\* the goroutines that wait in h.mu.Lock(): HandleWS before it adds or
\* deletes its connection, and the goroutines Broadcast has started
PendingLock ==
    {c \in Conns : hub.ws[c] \in {"Lock", "LockDelete"} \/ hub.removers[c] > 0}

\* h.mu.Lock() returns: nobody holds the read lock (the write lock is held
\* for one statement only)
CanLock == hub.rlocked = {}

\* h.mu.RLock() returns: a reader waits behind a waiting writer
CanRLock == PendingLock = {}

\* the goroutines that are inside conn.WriteMessage of the connection c
Writers(c) == {b \in Broadcasters : hub.pc[b] = "WriteMessage" /\ hub.conn[b] = c}

\* The ends of conn.WriteMessage of b on c. The write fails on a closed
\* connection and on one whose peer is gone, and does not return while the
\* peer does not read (no write deadline is set). A write that runs beside
\* another one on the same connection is a data race in the websocket
\* package: it may also fail or panic.
WriteOutcomes(b, c) ==
    LET alone == IF hub.connState[c] = "closed" \/ hub.peer[c] = "gone" THEN {"err"}
                 ELSE IF hub.peer[c] = "stalled" THEN {}
                 ELSE {"ok"}
    IN  IF Writers(c) \ {b} # {} THEN alone \cup {"err", "panic"} ELSE alone

\* upgrader.Upgrade of HandleWS
Upgrade(c) ==
    /\ ~hub.crashed
    /\ hub.ws[c] = "none"
    /\ hub' = [hub EXCEPT !.ws[c] = "Lock", !.connState[c] = "open"]
    /\ UNCHANGED <<server, ctxDone, agent, ui>>

\* h.mu.Lock(); h.clients[conn] = struct{}{}; h.mu.Unlock()
AddClient(c) ==
    /\ ~hub.crashed
    /\ hub.ws[c] = "Lock"
    /\ CanLock
    /\ hub' = [hub EXCEPT !.ws[c] = "ReadMessage", !.clients = @ \cup {c}]
    /\ UNCHANGED <<server, ctxDone, agent, ui>>

\* conn.ReadMessage() returns an error: the peer is gone or the connection
\* was closed
ReadMessage(c) ==
    /\ ~hub.crashed
    /\ hub.ws[c] = "ReadMessage"
    /\ hub.peer[c] = "gone" \/ hub.connState[c] = "closed"
    /\ hub' = [hub EXCEPT !.ws[c] = "LockDelete", !.failed = @ \cup {c}]
    /\ UNCHANGED <<server, ctxDone, agent, ui>>

\* h.mu.Lock(); delete(h.clients, conn); h.mu.Unlock() of HandleWS
DeleteClient(c) ==
    /\ ~hub.crashed
    /\ hub.ws[c] = "LockDelete"
    /\ CanLock
    /\ hub' = [hub EXCEPT !.ws[c] = "Close", !.clients = @ \ {c}]
    /\ UNCHANGED <<server, ctxDone, agent, ui>>

\* conn.Close() of HandleWS
CloseConn(c) ==
    /\ ~hub.crashed
    /\ hub.ws[c] = "Close"
    /\ hub' = [hub EXCEPT !.ws[c] = "returned", !.connState[c] = "closed"]
    /\ UNCHANGED <<server, ctxDone, agent, ui>>

\* a step of HandleWS for the connection c
HandleWS(c) ==
    Upgrade(c) \/ AddClient(c) \/ ReadMessage(c) \/ DeleteClient(c) \/ CloseConn(c)

\* the collector or a handler calls h.Broadcast(snap)
BroadcastCall(b) ==
    /\ ~hub.crashed
    /\ hub.pc[b] = "idle"
    /\ hub' = [hub EXCEPT !.pc[b] = "RLock"]
    /\ UNCHANGED <<server, ctxDone, agent, ui>>

\* h.mu.RLock(); if len(h.clients) == 0 { return }; json.Marshal(snap)
RLock(b) ==
    /\ ~hub.crashed
    /\ hub.pc[b] = "RLock"
    /\ CanRLock
    /\ hub' = [hub EXCEPT !.rlocked = @ \cup {b},
                          !.pc[b] = IF hub.clients = {} THEN "RUnlock" ELSE "range",
                          !.todo[b] = hub.clients]
    /\ UNCHANGED <<server, ctxDone, agent, ui>>

\* for conn := range h.clients: the next connection, in the order of the map
Range(b) ==
    /\ ~hub.crashed
    /\ hub.pc[b] = "range"
    /\ \/ /\ hub.todo[b] = {}
          /\ hub' = [hub EXCEPT !.pc[b] = "RUnlock", !.conn[b] = NULL]
       \/ \E c \in hub.todo[b] :
            hub' = [hub EXCEPT !.pc[b] = "WriteMessage", !.conn[b] = c,
                               !.todo[b] = @ \ {c}]
    /\ UNCHANGED <<server, ctxDone, agent, ui>>

\* conn.WriteMessage returns. On an error: conn.Close() and the goroutine
\* that will delete the connection. A panic ends the handler (net/http
\* recovers it, the deferred RUnlock runs) and ends the process when it is
\* in the goroutine of the collector.
WriteMessage(b) ==
    /\ ~hub.crashed
    /\ hub.pc[b] = "WriteMessage"
    /\ LET c == hub.conn[b]
       IN  \E out \in WriteOutcomes(b, c) :
            hub' = CASE out = "ok" -> [hub EXCEPT !.pc[b] = "range"]
                     [] out = "err" ->
                            [hub EXCEPT !.pc[b] = "range", !.connState[c] = "closed",
                                        !.removers[c] = @ + 1, !.failed = @ \cup {c}]
                     [] OTHER ->
                            IF b = "collector"
                            THEN [hub EXCEPT !.crashed = TRUE]
                            ELSE [hub EXCEPT !.pc[b] = "idle", !.conn[b] = NULL,
                                             !.todo[b] = {}, !.rlocked = @ \ {b}]
    /\ UNCHANGED <<server, ctxDone, agent, ui>>

\* the deferred h.mu.RUnlock()
RUnlock(b) ==
    /\ ~hub.crashed
    /\ hub.pc[b] = "RUnlock"
    /\ hub' = [hub EXCEPT !.pc[b] = "idle", !.rlocked = @ \ {b}, !.todo[b] = {}]
    /\ UNCHANGED <<server, ctxDone, agent, ui>>

\* a step of Broadcast in the goroutine b
Broadcast(b) == BroadcastCall(b) \/ RLock(b) \/ Range(b) \/ WriteMessage(b) \/ RUnlock(b)

\* go func(c) { h.mu.Lock(); delete(h.clients, c); h.mu.Unlock() }(conn)
Remover(c) ==
    /\ ~hub.crashed
    /\ hub.removers[c] > 0
    /\ CanLock
    /\ hub' = [hub EXCEPT !.removers[c] = @ - 1, !.clients = @ \ {c}]
    /\ UNCHANGED <<server, ctxDone, agent, ui>>

\* the browser of an open connection stops reading, reads again or goes away
PeerChange(c) ==
    /\ ~hub.crashed
    /\ hub.connState[c] = "open"
    /\ hub.peer[c] # "gone"
    /\ \E p \in {"reading", "stalled", "gone"} \ {hub.peer[c]} :
        hub' = [hub EXCEPT !.peer[c] = p]
    /\ UNCHANGED <<server, ctxDone, agent, ui>>

\* a step of a goroutine of the hub
HubStep == \E c \in Conns, b \in Broadcasters : HandleWS(c) \/ Broadcast(b) \/ Remover(c)

HubNext ==
    \/ \E c \in Conns : HandleWS(c)
    \/ \E b \in Broadcasters : Broadcast(b)
    \/ \E c \in Conns : Remover(c)
    \/ \E c \in Conns : PeerChange(c)

\* every goroutine that can run does run
HubSpec ==
    /\ Init /\ [][HubNext]_vars
    /\ \A c \in Conns : WF_vars(HandleWS(c)) /\ WF_vars(Remover(c))
    /\ \A b \in Broadcasters : WF_vars(RLock(b) \/ Range(b) \/ WriteMessage(b) \/ RUnlock(b))

(* --------------------- the dashboard's WebSocket store ---------------- *)

\* A socket is its index in ui.sockets and a timer the number setTimeout
\* returned; 0 is null. The handlers of a socket stay attached to it.

\* the sockets that are connecting or open
Live == {s \in 1..Len(ui.sockets) : ui.sockets[s] \in {"connecting", "open"}}

\* the body of connect(): if (ws) return; ws = new WebSocket(url)
connectBody(u) ==
    IF u.ws # 0 THEN u
    ELSE [u EXCEPT !.sockets = Append(@, "connecting"), !.ws = Len(u.sockets) + 1]

\* connect() can run within the bound on sockets
CanConnect == ui.ws # 0 \/ Len(ui.sockets) < MaxSockets

\* clearTimeout(id)
clearTimeout(u, id) == [u EXCEPT !.timers = @ \ {id}]

\* socket.close() of the socket s: the closing handshake starts
close(u, s) ==
    IF s # 0 /\ u.sockets[s] \in {"connecting", "open"}
    THEN [u EXCEPT !.sockets[s] = "closing"]
    ELSE u

\* the page calls connect()
connect ==
    /\ CanConnect
    /\ ui' = [connectBody(ui) EXCEPT !.stopped = FALSE]
    /\ UNCHANGED <<server, ctxDone, agent, hub>>

\* a timer of setTimeout(connect, 2000) fires
TimerFires ==
    /\ CanConnect
    /\ \E t \in ui.timers : ui' = connectBody(clearTimeout(ui, t))
    /\ UNCHANGED <<server, ctxDone, agent, hub>>

\* the open event of the socket s: ws.onopen
onopen(s) ==
    /\ ui.sockets[s] = "connecting"
    /\ LET u == [ui EXCEPT !.sockets[s] = "open", !.connected = TRUE]
       IN  ui' = IF u.reconnectTimer # 0
                 THEN [clearTimeout(u, u.reconnectTimer) EXCEPT !.reconnectTimer = 0]
                 ELSE u
    /\ UNCHANGED <<server, ctxDone, agent, hub>>

\* the close event of the socket s, after a failed connection, a close by
\* the server or the end of the closing handshake: ws.onclose
onclose(s) ==
    /\ ui.sockets[s] \in {"connecting", "open", "closing"}
    /\ ui.set < MaxTimers
    /\ ui' = [ui EXCEPT !.sockets[s] = "closed", !.connected = FALSE, !.ws = 0,
                        !.set = @ + 1, !.timers = @ \cup {ui.set + 1},
                        !.reconnectTimer = ui.set + 1]
    /\ UNCHANGED <<server, ctxDone, agent, hub>>

\* the error event of the socket s: ws.onerror closes the socket ws names
onerror(s) ==
    /\ ui.sockets[s] \in {"connecting", "open"}
    /\ ui' = close(ui, ui.ws)
    /\ UNCHANGED <<server, ctxDone, agent, hub>>

\* the page calls disconnect()
disconnect ==
    /\ LET u == IF ui.reconnectTimer # 0
                THEN [clearTimeout(ui, ui.reconnectTimer) EXCEPT !.reconnectTimer = 0]
                ELSE ui
       IN  ui' = [close(u, u.ws) EXCEPT !.ws = 0, !.stopped = TRUE]
    /\ UNCHANGED <<server, ctxDone, agent, hub>>

UiNext ==
    \/ connect
    \/ TimerFires
    \/ \E s \in 1..Len(ui.sockets) : onopen(s)
    \/ \E s \in 1..Len(ui.sockets) : onclose(s)
    \/ \E s \in 1..Len(ui.sockets) : onerror(s)
    \/ disconnect

UiSpec == Init /\ [][UiNext]_vars

(* ---------------------------- the Compactor --------------------------- *)

\* the store of the current state
Store == [db |-> db, logged |-> logged]

\* the positions of the compaction passes in a cycle
PassCalls == {k \in 1..Len(Cycle) : Cycle[k].fn \in Passes}

\* the store on which the k-th call of a cycle that starts now acts
PreStore(k) == AfterCalls(k - 1, Store, now)

\* the index columns of the target row to which a pass adds the source row r
BucketKey(pass, r) ==
    IF pass \in {"rollupGPUTo1m", "rollupGPUTo1h"}
    THEN <<Bucket(r.ts, BucketOf(pass)), Coalesce(r.node_id), r.gpu_id>>
    ELSE <<Bucket(r.ts, BucketOf(pass)), r.node_id>>

\* the index columns of the rows stored in the target of a pass
TargetKeys(pass, d) == {RollupKey(Target(pass), e) : e \in d[Target(pass)]}

\* the source rows a pass on the database d selects at the bound beforeTs
PassSelected(pass, d, beforeTs) ==
    Selected(d[Source(pass)], MaxTs(d[Target(pass)]), beforeTs)

\* C1: no compaction pass of a retention cycle selects a source row whose
\* bucket (floor(ts / size) * size, node, device) is already in its target tier.
C1_ExactlyOnceRollup ==
    \A k \in PassCalls :
        LET pass == Cycle[k].fn
            pre == PreStore(k).db
        IN  \A r \in PassSelected(pass, pre, now - Settle(pass)) :
                BucketKey(pass, r) \notin TargetKeys(pass, pre)

\* C2: a bucket that has a source row newer than now - settle_window has no
\* row in the target tier.
C2_NoPartialBuckets ==
    \A pass \in Passes :
        \A e \in db[Target(pass)] :
            ~ \E r \in db[Source(pass)] :
                /\ BucketKey(pass, r) = RollupKey(Target(pass), e)
                /\ r.ts > now - Settle(pass)

\* every rollup table holds at most one row per index key
RollupUnique ==
    \A pass \in Passes :
        \A e1, e2 \in db[Target(pass)] :
            RollupKey(Target(pass), e1) = RollupKey(Target(pass), e2) => e1 = e2

\* C3: each rollup table holds at most one row per (ts, node_id, gpu_id)
\* (GPU) or (ts, node_id) (host), and no compaction pass has issued an insert
\* that the unique index rejected.
C3_RollupUniqueNeverViolated ==
    /\ RollupUnique
    /\ logged \cap {RollupError(pass) : pass \in Passes} = {}

\* C4: in every reachable store, for every pass of a cycle, running the pass
\* and then running it again with no write in between leaves the target tier
\* as the first run left it.
C4_IdempotentCompaction ==
    \A k \in PassCalls :
        LET pass == Cycle[k].fn
            first == rollup(pass, PreStore(k), now - Settle(pass))
            second == rollup(pass, first, now - Settle(pass))
        IN  second.db[Target(pass)] = first.db[Target(pass)]

\* a store in which a first run inserts rows and a second run selects rows again
C4_Witness ==
    \E k \in PassCalls :
        LET pass == Cycle[k].fn
            pre == PreStore(k)
            first == rollup(pass, pre, now - Settle(pass))
        IN  /\ first.db[Target(pass)] # pre.db[Target(pass)]
            /\ PassSelected(pass, first.db, now - Settle(pass)) # {}

\* the settled source rows of a pass in buckets newer than the high-water
\* mark, in the database d at time t
Pending(pass, d, t) ==
    {r \in d[Source(pass)] :
        /\ r.ts <= t - Settle(pass)
        /\ Bucket(r.ts, BucketOf(pass)) > MaxTs(d[Target(pass)])}

C6_HighWaterMonotonic ==
    [][\A pass \in Passes :
          MaxTs(db'[Target(pass)]) >= MaxTs(db[Target(pass)])]_vars

\* C6 amended: the high-water mark of a target tier never decreases, except
\* that it is 0 again once a prune has deleted every row of the tier.
C6_HighWaterMonotonicUnlessEmptied ==
    [][\A pass \in Passes :
          \/ MaxTs(db'[Target(pass)]) >= MaxTs(db[Target(pass)])
          \/ db'[Target(pass)] = {}]_vars

\* a prune has just deleted every row of a target tier that had rows
C6_Witness ==
    \E p \in Procs :
        /\ pc[p] = "Unlock"
        /\ op[p].call.fn = "prune"
        /\ op[p].pre[op[p].call.table] # {}
        /\ db[op[p].call.table] = {}

(* ------------------------- the write lock and reads ------------------- *)

\* the goroutines between db.mu.Lock() and the deferred db.mu.Unlock()
Holders ==
    {p \in Procs : pc[p] \in {"Begin", "QueryRow", "Exec", "Commit", "Rollback", "Unlock"}}

\* the database d after the whole call, every statement succeeding
Done(call, d) ==
    IF call.fn \in BatchWrites
    THEN [d EXCEPT ![BatchTable(call.fn)] = BatchRows(call, @, Len(call.batch))]
    ELSE IF call.fn \in Passes
    THEN [d EXCEPT ![Target(call.fn)] = Rollup(call.fn, d, call.beforeTs).rows]
    ELSE IF call.fn \in SingleWrites
    THEN SingleStmt(call, d, now)
    ELSE [d EXCEPT ![call.table] = Delete(@, call.beforeTs)]

\* C7: an invocation of a compaction pass runs as if alone, whatever other
\* invocations of the pass and ingest calls run at the same time: from its
\* Lock to its insert no other call changes the database, the high-water mark
\* it inserts with is the one of the target tier at the insert, its result is
\* the result of the whole pass on the database it found, and no rollup table
\* ever holds a bucket twice.
C7_ConcurrentCompaction ==
    /\ RollupUnique
    /\ \A p \in Procs :
        op[p].call.fn \in Passes =>
            /\ pc[p] \in {"QueryRow", "Exec"} => db = op[p].pre
            /\ pc[p] = "Exec" => op[p].lastRolled = MaxTs(db[Target(op[p].call.fn)])
            /\ pc[p] = "Unlock" => db = Done(op[p].call, op[p].pre)

\* a pass is about to insert settled rows while a second invocation of the
\* pass waits for the lock
C7_Witness ==
    \E p, q \in Procs :
        /\ p # q
        /\ pc[p] = "Exec" /\ op[p].call.fn = "rollupGPUTo1m"
        /\ pc[q] = "Lock" /\ op[q].call.fn = "rollupGPUTo1m"
        /\ PassSelected("rollupGPUTo1m", db, op[p].call.beforeTs) # {}

\* C8: the rows a read returns while a multi-statement write (a batch call, a
\* compaction pass, a prune) is under way are the rows of the database before
\* that call or the rows of the database after the whole call.
C8_ReadIsolation ==
    [][\A r \in Procs :
          (pc[r] = "Query" /\ pc'[r] = "Return") =>
              \A w \in Holders :
                  op'[r].rows \in {QueryRows(op[r].call, op[w].pre),
                                   QueryRows(op[r].call, Done(op[w].call, op[w].pre))}]_vars

\* C9: at most one goroutine is between Lock and Unlock, and db.mu is locked
\* exactly when one is.
C9_WriteSerialization ==
    /\ Cardinality(Holders) <= 1
    /\ mu = (Holders # {})

\* a compaction pass holds the lock while an ingest batch waits for it
C9_Witness ==
    \E p, q \in Procs :
        /\ p \in Holders /\ op[p].call.fn \in Passes
        /\ pc[q] = "Lock" /\ op[q].call.fn = "WriteGPUMetrics"

\* C10: a batch call of which a statement failed returns with the store as it
\* was before the call.
C10_AllOrNothing ==
    \A p \in Procs :
        (pc[p] = "Unlock" /\ op[p].call.fn \in BatchWrites /\ op[p].err)
            => db = op[p].pre

(* --------------------------- the Query Router ------------------------- *)

\* the tier a span is served from
Tier(span) == IF span <= 3600 THEN "raw" ELSE IF span <= 86400 THEN "1m" ELSE "1h"

\* the rows of a table of device gpuID within [from, to], of the node nodeID
\* when one is given
GPURowsOf(table, q, d) ==
    {e \in d[table] : /\ e.gpu_id = q.GPUID
                      /\ q.From <= e.ts /\ e.ts <= q.To
                      /\ q.NodeID # "" => e.node_id = q.NodeID}

\* the rows of a host table within [from, to], of the node nodeID when one is given
HostRowsOf(table, q, d) ==
    {e \in d[table] : /\ q.From <= e.ts /\ e.ts <= q.To
                      /\ q.NodeID # "" => e.node_id = q.NodeID}

\* C11: the tier a time-series query reads is a function of span = to - from,
\* the same for GPU and host queries: raw up to 3600, 1m up to 86400, 1h
\* above; the response is the one that reading that tier gives
C11_ResolutionSelection ==
    /\ resp.fn = "handleGPUMetrics" =>
        LET table == "gpu_metrics_" \o Tier(resp.q.To - resp.q.From)
        IN  resp.out \in {scanGPUMetrics(table, s) : s \in OrderBy(GPURowsOf(table, resp.q, db))}
    /\ resp.fn = "handleHostMetrics" =>
        LET table == "host_metrics_" \o Tier(resp.q.To - resp.q.From)
        IN  resp.out.metrics \in
                {[i \in 1..Len(s) |-> ScanHostRow(table, s[i])] : s \in OrderBy(HostRowsOf(table, resp.q, db))}

\* a host query of span 86400 answered with rows of the 1m tier while the
\* raw table has rows in its range
C11_Witness ==
    /\ resp.fn = "handleHostMetrics"
    /\ resp.q.To - resp.q.From = 86400
    /\ Len(resp.out.metrics) > 0
    /\ HostRowsOf("host_metrics_raw", resp.q, db) # {}

\* C12: GetGPUMetrics returns exactly the rows of the selected tier with the
\* device index, from <= ts <= to and the node of the filter when one is
\* given, in ascending ts order; GetHostMetrics does the same without the
\* device condition
C12_QueryReturnsRows ==
    /\ resp.fn = "handleGPUMetrics" =>
        LET table == "gpu_metrics_" \o Tier(resp.q.To - resp.q.From)
        IN  /\ ~resp.out.err
            /\ resp.out.metrics \in
                    {[i \in 1..Len(s) |-> ScanGPURow(table, s[i])] :
                        s \in OrderBy(GPURowsOf(table, resp.q, db))}
    /\ resp.fn = "handleHostMetrics" =>
        LET table == "host_metrics_" \o Tier(resp.q.To - resp.q.From)
        IN  /\ ~resp.out.err
            /\ resp.out.metrics \in
                    {[i \in 1..Len(s) |-> ScanHostRow(table, s[i])] :
                        s \in OrderBy(HostRowsOf(table, resp.q, db))}

\* the GPUMetrics struct a sample of a batch is read back as
ReadBack(m) ==
    [Timestamp |-> m.Timestamp, NodeID |-> m.NodeID, GPUID |-> m.GPUID,
     GPUUtil |-> Rat(m.GPUUtil, 1), Temperature |-> m.Temperature]

\* the samples of a batch of the device, node and second of the sample m, in order
RECURSIVE SamplesOf(_, _)
SamplesOf(batch, m) ==
    IF batch = <<>> THEN <<>>
    ELSE LET x == batch[1]
         IN  (IF <<x.Timestamp, x.NodeID, x.GPUID>> = <<m.Timestamp, m.NodeID, m.GPUID>>
              THEN <<ReadBack(x)>> ELSE <<>>) \o SamplesOf(Tail(batch), m)

\* C13: after WriteGPUMetrics(batch) succeeded, GetGPUMetrics for the device,
\* the node and the range [ts, ts] of a sample of the batch returns exactly
\* the samples of the batch for them, field for field, whatever the store
\* held before
C13_RoundTrip ==
    (resp.fn = "handleIngestGPUMetrics" /\ ~resp.err) =>
        \A i \in 1..Len(resp.body) :
            LET m == resp.body[i]
                q == [GPUID |-> m.GPUID, NodeID |-> m.NodeID,
                      From |-> m.Timestamp, To |-> m.Timestamp]
            IN  \A out \in GetGPUMetrics(q, db) :
                    ~out.err /\ out.metrics = SamplesOf(resp.body, m)

(* ------------------------- the views of now --------------------------- *)

\* the raw GPU rows of a node and device, and the raw host rows of a node
GPUPartition(n, g) ==
    {r \in db["gpu_metrics_raw"] : Coalesce(r.node_id) = n /\ r.gpu_id = g}

HostPartition(n) == {r \in db["host_metrics_raw"] : r.node_id = n}

\* the nodes that occur in the store or in a set of structs
NodesOf(table, structs) == {Coalesce(r.node_id) : r \in db[table]} \cup {m.NodeID : m \in structs}

\* C14: GetLatestGPUMetrics returns, for each (node, device) with a raw row
\* of ts >= now - 30, exactly one row, one of the greatest ts of the
\* partition, and no row for a partition whose newest row is older;
\* GetLatestHostMetrics does the same per node
C14_FreshLatest ==
    resp.fn = "handleStatus" =>
        /\ \A n \in NodesOf("gpu_metrics_raw", resp.gpus) : \A g \in GPUIDs :
                LET rows == GPUPartition(n, g)
                    got == {m \in resp.gpus : m.NodeID = n /\ m.GPUID = g}
                IN  IF \E r \in rows : r.ts >= resp.at - 30
                    THEN /\ Cardinality(got) = 1
                         /\ got \subseteq {ScanGPURow("gpu_metrics_raw", r) :
                                                r \in {e \in rows : e.ts = MaxTs(rows)}}
                    ELSE got = {}
        /\ \A n \in NodesOf("host_metrics_raw", resp.hosts) :
                LET rows == HostPartition(n)
                    got == {m \in resp.hosts : m.NodeID = n}
                IN  IF \E r \in rows : r.ts >= resp.at - 30
                    THEN /\ Cardinality(got) = 1
                         /\ got \subseteq {ScanHostRow("host_metrics_raw", r) :
                                                r \in {e \in rows : e.ts = MaxTs(rows)}}
                    ELSE got = {}

\* a status with the latest sample of a GPU that has older samples within
\* the window, and without a sample of a GPU whose newest sample is too old
C14_Witness ==
    /\ resp.fn = "handleStatus"
    /\ \E n \in {"local", "n1"} :
            /\ \E m \in resp.gpus : m.NodeID = n
            /\ \E r \in GPUPartition(n, 0) : r.ts >= resp.at - 30 /\ r.ts < MaxTs(GPUPartition(n, 0))
    /\ \E n \in {"local", "n1"} :
            /\ GPUPartition(n, 0) # {}
            /\ \A r \in GPUPartition(n, 0) : r.ts < resp.at - 30

\* the GPUProcess struct of a row
ScanProc(r) ==
    [Timestamp |-> r.ts, NodeID |-> Coalesce(r.node_id), GPUID |-> r.gpu_id, PID |-> r.pid]

\* the current processes of the device g of the node n at time t: the rows of
\* the newest snapshot recorded for it, when that is at most 30 seconds old
Snapshot(n, g, t) ==
    LET rows == {r \in db["gpu_processes"] : Coalesce(r.node_id) = n /\ r.gpu_id = g}
    IN  IF MaxTs(rows) >= t - 30
        THEN {ScanProc(r) : r \in {e \in rows : e.ts = MaxTs(rows)}}
        ELSE {}

\* the nodes with process rows
ProcNodes == {Coalesce(r.node_id) : r \in db["gpu_processes"]}

\* C15: GetAllGPUProcesses and GetGPUProcesses return, for each (node,
\* device), exactly the rows of the newest snapshot recorded for it, and only
\* when it is within the 30s window; a process that is only in an older
\* snapshot is not returned
C15_FullSnapshot ==
    /\ resp.fn = "handleStatus" =>
            {ScanProc(r) : r \in resp.processes}
                = UNION {Snapshot(n, g, resp.at) : n \in ProcNodes, g \in GPUIDs}
    /\ resp.fn = "handleGPUProcesses" =>
            {ScanProc(r) : r \in resp.procs}
                = IF resp.nodeID # "" THEN Snapshot(resp.nodeID, resp.gpuID, resp.at)
                  ELSE UNION {Snapshot(n, resp.gpuID, resp.at) : n \in ProcNodes}

(* --------------------------- the node registry ------------------------ *)

\* the requests that ingest on the hub, and those of the standalone collector
HubIngests == {"handleIngestGPUMetrics", "handleIngestHostMetrics", "handleIngestGPUProcesses"}

CollectorIngests == {"collectGPU", "collectHost"}

\* the last request is an ingest on the hub whose write returned no error
HubIngested == resp.fn \in HubIngests /\ ~resp.err

\* the node the last ingest came from
IngestNode ==
    CASE resp.fn \in {"handleIngestGPUMetrics", "handleIngestGPUProcesses"} -> resp.body[1].NodeID
      [] resp.fn = "handleIngestHostMetrics" -> resp.body.NodeID
      [] resp.fn \in CollectorIngests -> "local"

\* C16: after a successful ingest from the node N, on the hub and on the
\* standalone collector alike, the last_seen of N is the time of that ingest
\* and N is reported online then
C16_HeartbeatOnIngest ==
    (HubIngested \/ resp.fn \in CollectorIngests) =>
        /\ \A n \in db["nodes"] : n.node_id = IngestNode => n.last_seen = resp.at
        /\ \A n \in GetNodes(db, resp.at) : n.NodeID = IngestNode => n.Online

\* C17: after a successful ingest on the hub from a node id, a node row for
\* that id exists, registered before or not
C17_NodeCreatedOnIngest ==
    HubIngested => \E n \in db["nodes"] : n.node_id = IngestNode

\* C18: GetNodes reports every registered node once, online if and only if
\* now - last_seen < 60
C18_NodeLiveness ==
    resp.fn = "handleNodes" =>
        /\ {n.NodeID : n \in resp.nodes} = {n.node_id : n \in db["nodes"]}
        /\ Cardinality(resp.nodes) = Cardinality(db["nodes"])
        /\ \A n \in resp.nodes : \A e \in db["nodes"] :
                e.node_id = n.NodeID =>
                    /\ n.LastSeen = e.last_seen
                    /\ n.Online <=> (resp.at - e.last_seen < 60)

\* a node list with a node last seen 59 seconds ago, online, and a node last
\* seen 60 seconds ago, offline
C18_Witness ==
    /\ resp.fn = "handleNodes"
    /\ \E n \in resp.nodes : resp.at - n.LastSeen = 59 /\ n.Online
    /\ \E n \in resp.nodes : resp.at - n.LastSeen = 60 /\ ~n.Online

\* the step is a registration
Registers == writes' = writes + 1 /\ resp'.fn = "handleIngestRegister"

\* C19: no step changes the first_seen of a node or of a device once its row
\* exists, and after a registration the hostname, device count and last_seen
\* of the node and the name and uuid of its devices are those of that
\* registration
C19_UpsertPreservesFirstSeen ==
    [][/\ \A n \in db["nodes"] : \E e \in db'["nodes"] :
             e.node_id = n.node_id /\ e.first_seen = n.first_seen
       /\ \A d \in db["gpu_devices"] : \E e \in db'["gpu_devices"] :
             e.node_id = d.node_id /\ e.gpu_id = d.gpu_id /\ e.first_seen = d.first_seen
       /\ Registers =>
            LET payload == resp'.body
            IN  /\ \E e \in db'["nodes"] :
                      /\ e.node_id = payload.NodeID
                      /\ e.hostname = payload.Hostname
                      /\ e.gpu_count = Len(payload.Devices)
                      /\ e.last_seen = now
                /\ Cardinality({e \in db'["nodes"] : e.node_id = payload.NodeID}) = 1
                /\ \A i \in 1..Len(payload.Devices) :
                      LET rows == {e \in db'["gpu_devices"] :
                                      e.node_id = payload.NodeID /\ e.gpu_id = payload.Devices[i].ID}
                      IN  rows = {[node_id |-> payload.NodeID, gpu_id |-> payload.Devices[i].ID,
                                   uuid |-> payload.Devices[i].UUID, name |-> payload.Devices[i].Name,
                                   first_seen |-> e.first_seen] : e \in rows}
                          /\ Cardinality(rows) = 1]_vars

\* a node registered again later, with another hostname and another device
\* name: first_seen is older than the registration, the fields are the new ones
C19_Witness ==
    /\ resp.fn = "handleIngestRegister"
    /\ \E n \in db["nodes"] :
            /\ n.node_id = resp.body.NodeID
            /\ n.first_seen < resp.at
            /\ n.last_seen = resp.at
            /\ n.hostname = "h2"
    /\ \E d \in db["gpu_devices"] :
            /\ d.node_id = resp.body.NodeID
            /\ d.first_seen < resp.at
            /\ d.name = "H100"

(* ------------------------------ the Pruner ---------------------------- *)

\* the prune calls of a retention cycle
PruneCalls == {k \in 1..Len(Cycle) : Cycle[k].fn = "prune"}

\* the calls of a retention cycle at time t from the k-th on, the store being
\* st before the k-th: every prune among them deletes exactly the rows of its
\* table older than its cutoff and leaves the other tables and the log alone
RECURSIVE PrunesFrame(_, _, _)
PrunesFrame(k, st, t) ==
    k > Len(Cycle) \/
        \E post \in {Call(k, st, t)} :
            /\ k \in PruneCalls =>
                    /\ post.db[Cycle[k].table]
                            = {r \in st.db[Cycle[k].table] : r.ts >= t - Cycle[k].keep}
                    /\ \A x \in Tables \ {Cycle[k].table} : post.db[x] = st.db[x]
                    /\ post.logged = st.logged
            /\ PrunesFrame(k + 1, post, t)

\* C20: prune(tier, cutoff) deletes exactly the rows of the tier with
\* ts < cutoff: the rows of the tier with ts >= cutoff, the rows of every
\* other tier and the log are as before
C20_PruneFrame == PrunesFrame(1, Store, now)

\* the prune of the 1m tier deletes a row whose hour is in the 1h tier, and
\* the 1h row is there after the prune
C20_Witness ==
    \E k \in PruneCalls :
        LET pre == PreStore(k)
            post == Call(k, pre, now)
        IN  /\ Cycle[k].table = "gpu_metrics_1m"
            /\ \E r \in pre.db["gpu_metrics_1m"] \ post.db["gpu_metrics_1m"] :
                    \E h \in post.db["gpu_metrics_1h"] :
                        /\ h.ts = Bucket(r.ts, Bucket1h)
                        /\ h.node_id = r.node_id
                        /\ h.gpu_id = r.gpu_id

(* -------------------------- the retention cycle ----------------------- *)

\* the retention duration doRetention prunes the table with
KeepOf(table) == Cycle[CHOOSE k \in PruneCalls : Cycle[k].table = table].keep

\* the rows of the source tier of a pass that are settled and expired at time t
SettledExpired(pass, d, t) ==
    {r \in d[Source(pass)] :
        r.ts <= t - Settle(pass) /\ r.ts < t - KeepOf(Source(pass))}

\* C21: in a retention cycle every compaction pass comes before every prune
\* and the passes into the 1m tier come before the passes into the 1h tier,
\* so that a source row that is settled and expired when the cycle starts is
\* still in its tier, within the settle bound, when the pass over that tier runs.
C21_CompactBeforePrune ==
    /\ \A k \in PassCalls, j \in PruneCalls : k < j
    /\ \A k, j \in PassCalls :
            (BucketOf(Cycle[k].fn) = Bucket1m /\ BucketOf(Cycle[j].fn) = Bucket1h) => k < j
    /\ \A k \in PassCalls :
            LET pass == Cycle[k].fn
            IN  \A r \in SettledExpired(pass, db, now) :
                    /\ r \in PreStore(k).db[Source(pass)]
                    /\ r.ts <= now - Settle(pass)

\* a raw row is settled and expired, and the cycle that starts now deletes it
C21_Witness ==
    \E r \in SettledExpired("rollupGPUTo1m", db, now) :
        r \notin AfterCalls(Len(Cycle), Store, now).db["gpu_metrics_raw"]

\* C22: a failed compaction pass or prune is logged and the calls after it in
\* the cycle are still made: at every point of a cycle every call before the
\* current one was made, a finished cycle has made all its calls, the error
\* of every failed call is in the log; and the tick received after a cycle,
\* failed calls or not, starts the next cycle.
C22_FailureIsolation ==
    /\ [](/\ retention.pc = "doRetention" => retention.ran = 1..(retention.k - 1)
          /\ retention.pc \in {"select", "returned"} => retention.ran = 1..Len(Cycle)
          /\ \A k \in retention.failed : CallError(k) \in logged)
    /\ [][(retention.pc = "select" /\ retention'.received = retention.received + 1)
            => /\ retention'.pc = "doRetention"
               /\ retention'.k = 1
               /\ retention'.cycles = retention.cycles + 1]_vars

\* a cycle in which a call failed has made the calls after it, and a later
\* cycle has run to its end without a failure
C22_Witness ==
    /\ retention.pc = "select"
    /\ retention.cycles >= 2
    /\ retention.ran = 1..Len(Cycle)
    /\ retention.failed = {}
    /\ \E k \in 1..(Len(Cycle) - 1) : CallError(k) \in logged

\* C23: RunRetention starts its first cycle without receiving a tick, and
\* from then on it has started exactly one cycle more than it has received
\* ticks: one cycle at startup and one for each tick received.
C23_CycleAtStartupAndPerTick ==
    /\ retention.pc = "start" => (retention.cycles = 0 /\ retention.received = 0)
    /\ retention.pc # "start" => retention.cycles = retention.received + 1
    /\ retention.cycles = 1 => retention.received = 0

\* two periods have passed during the first cycle, one tick was dropped, the
\* other was received and its cycle has run
C23_Witness ==
    /\ ticks = 2
    /\ retention.pc = "select"
    /\ retention.received = 1
    /\ retention.cycles = 2
    /\ tickerC["RunRetention"] = 0

\* C24: once cancel() was called RunRetention starts no cycle after the one
\* of its startup, and a cycle that is running is not interrupted: the
\* process does not end while RunRetention is inside doRetention.
C24_Shutdown ==
    /\ [][(ctxDone /\ retention.pc # "start")
            => retention'.cycles = retention.cycles]_vars
    /\ [](retention.pc = "doRetention" => ~exited)

(* -------------------------- the Alert Evaluator ----------------------- *)

\* the pairs (sample, metric) of the batch that reach an enabled threshold
Exceeding(samples, th) ==
    {x \in (1..Len(samples)) \X {"temperature", "gpu_util", "mem_util"} :
        th[x[2]] # 0 /\ ValueOf(samples[x[1]], x[2]) >= th[x[2]]}

\* the active alert a is the alert of the pair x of the batch
AlertFor(a, samples, th, x) ==
    /\ a.node_id = samples[x[1]].NodeID
    /\ a.gpu_id = samples[x[1]].GPUID
    /\ a.metric = x[2]
    /\ a.value = ValueOf(samples[x[1]], x[2])
    /\ a.threshold = th[x[2]]

\* C25: after an evaluation that ran (some threshold enabled) the active
\* alerts are exactly the alerts of that evaluation: one for each sample of
\* its batch and each enabled threshold the sample reaches, and no other, so
\* none of an earlier evaluation that the latest did not raise.
C25_AlertReplace ==
    (resp.fn = "ingestGPUSamples" /\ ~AllDisabled(resp.thresholds)) =>
        LET ex == Exceeding(resp.samples, resp.thresholds)
        IN  /\ Len(alerts) = Cardinality(ex)
            /\ \A x \in ex : \E i \in 1..Len(alerts) :
                    AlertFor(alerts[i], resp.samples, resp.thresholds, x)
            /\ \A i \in 1..Len(alerts) : \E x \in ex :
                    AlertFor(alerts[i], resp.samples, resp.thresholds, x)

\* thresholds {temperature: 80}: a sample of 85 degrees had raised one alert,
\* the evaluation of a sample of 60 degrees has left none
C25_Witness ==
    /\ resp.fn = "ingestGPUSamples"
    /\ resp.thresholds = [temperature |-> 80, gpu_util |-> 0, mem_util |-> 0]
    /\ resp.samples = <<AlertSample(resp.at, 0, 60)>>
    /\ Len(resp.active) = 1
    /\ resp.active[1].metric = "temperature"
    /\ resp.active[1].value = 85
    /\ alerts = <<>>

\* C26: a GPU ingest with all three thresholds disabled leaves the active
\* alerts exactly as it found them: none is cleared, none is added.
C26_DisabledLeavesAlerts ==
    (resp.fn = "ingestGPUSamples" /\ AllDisabled(resp.thresholds)) =>
        alerts = resp.active

\* an alert for 85 degrees was active, the thresholds were disabled, a sample
\* of 60 degrees was ingested and the alert is still active
C26_Witness ==
    /\ resp.fn = "ingestGPUSamples"
    /\ AllDisabled(resp.thresholds)
    /\ resp.samples = <<AlertSample(resp.at, 0, 60)>>
    /\ Len(alerts) = 1
    /\ alerts[1].gpu_id = 0
    /\ alerts[1].value = 85

(* ------------------------------ Ingestion ----------------------------- *)

\* C27: a WriteGPUMetrics call with no samples starts no transaction (it
\* never has the connection of a transaction), writes no row and does not fail.
C27_EmptyBatchNoOp ==
    \A p \in Procs :
        (op[p].call.fn = "WriteGPUMetrics" /\ Len(op[p].call.batch) = 0) =>
            /\ conn # p
            /\ ~op[p].err
            /\ p \in Holders => db["gpu_metrics_raw"] = op[p].pre["gpu_metrics_raw"]

\* the tables the three write calls insert into
RawTables == {"gpu_metrics_raw", "host_metrics_raw", "gpu_processes"}

\* C28: every row that WriteGPUMetrics, WriteHostMetrics and
\* WriteGPUProcesses have stored carries a node_id that is not empty (a sample
\* sent with the empty node id is stored under "local").
C28_CanonicalNodeID ==
    \A t \in RawTables : \A r \in db[t] : r.node_id # ""

\* the rows the collector stores for the samples it takes at time t
Taken(t) ==
    {[ts |-> t, node_id |-> "local", gpu_id |-> 0, gpu_util |-> 20,
      temperature |-> 45, dup |-> 0],
     [ts |-> t, node_id |-> "local", cpu_percent |-> 50, dup |-> 0]}

\* the log lines of the failed writes of the collector
WriteErrors ==
    {"error writing GPU metrics", "error writing GPU processes",
     "error writing host metrics"}

SourceMax(pass, r) ==
    CASE pass = "rollupGPUTo1m"  -> r.gpu_util
      [] pass = "rollupHostTo1m" -> r.cpu_percent
      [] pass = "rollupGPUTo1h"  -> r.gpu_util_max
      [] pass = "rollupHostTo1h" -> r.cpu_percent_max

\* the column of a target row that holds that MAX
TargetMax(pass, e) ==
    IF pass \in {"rollupGPUTo1m", "rollupGPUTo1h"} THEN e.gpu_util_max
    ELSE e.cpu_percent_max

\* the source rows of the bucket of the target row e with lo < ts <= hi
Contributors(pass, d, e, lo, hi) ==
    {r \in d[Source(pass)] :
        /\ r.ts > lo
        /\ r.ts <= hi
        /\ BucketKey(pass, r) = RollupKey(Target(pass), e)}

\* C30: every row a compaction pass of a cycle adds to its target tier
\* aggregates source rows with high_water < ts <= now - settle_window (120 s
\* for raw -> 1m, 7200 s for 1m -> 1h) and only those: there is such a row in
\* its bucket and its maximum is the maximum over exactly those rows, so no
\* source row newer than now - settle_window contributes.
C30_SettleBound ==
    \A k \in PassCalls :
        LET pass == Cycle[k].fn
            pre == PreStore(k).db
            post == Call(k, PreStore(k), now).db
            window == IF pass \in {"rollupGPUTo1m", "rollupHostTo1m"} THEN 120 ELSE 7200
        IN  \A e \in post[Target(pass)] \ pre[Target(pass)] :
                LET G == Contributors(pass, pre, e, MaxTs(pre[Target(pass)]), now - window)
                IN  /\ G # {}
                    /\ TargetMax(pass, e) = MAX({SourceMax(pass, r) : r \in G})

\* a pass adds a row to its target tier while its source tier holds a row
\* above the high-water mark that is newer than now - settle_window
C30_Witness ==
    \E k \in PassCalls :
        LET pass == Cycle[k].fn
            pre == PreStore(k).db
            post == Call(k, PreStore(k), now).db
        IN  /\ post[Target(pass)] # pre[Target(pass)]
            /\ \E r \in pre[Source(pass)] :
                    /\ r.ts > MaxTs(pre[Target(pass)])
                    /\ r.ts > now - Settle(pass)

(* ------------------------- one row per group -------------------------- *)

\* the groups of the source rows a pass on the database d selects
SelectedGroups(pass, d, beforeTs) ==
    {BucketKey(pass, r) : r \in PassSelected(pass, d, beforeTs)}

\* the selected source rows of the group key
GroupOf(pass, d, beforeTs, key) ==
    {r \in PassSelected(pass, d, beforeTs) : BucketKey(pass, r) = key}

\* C31: a compaction pass of a cycle that succeeds adds to its target tier
\* exactly one row for each distinct (floor(ts / bucket) * bucket, node, device)
\* group of the source rows it selects ((bucket, node) for host), the max
\* column of that row is the maximum over the group, and it adds no row for a
\* window without a selected source row.
C31_OneRowPerGroup ==
    \A k \in PassCalls :
        LET pass == Cycle[k].fn
            pre == PreStore(k).db
            res == Rollup(pass, pre, now - Settle(pass))
            added == res.rows \ pre[Target(pass)]
            groups == SelectedGroups(pass, pre, now - Settle(pass))
        IN  ~res.err =>
                /\ \A key \in groups :
                        LET E == {e \in added : RollupKey(Target(pass), e) = key}
                        IN  /\ Cardinality(E) = 1
                            /\ \A e \in E : TargetMax(pass, e) =
                                    MAX({SourceMax(pass, r) :
                                            r \in GroupOf(pass, pre, now - Settle(pass), key)})
                /\ \A e \in added : RollupKey(Target(pass), e) \in groups

\* a pass succeeds and adds the row of a group of two source rows with
\* different values
C31_Witness ==
    \E k \in PassCalls :
        LET pass == Cycle[k].fn
            pre == PreStore(k).db
            res == Rollup(pass, pre, now - Settle(pass))
            sel == PassSelected(pass, pre, now - Settle(pass))
        IN  /\ ~res.err
            /\ \E r1, r2 \in sel :
                    /\ BucketKey(pass, r1) = BucketKey(pass, r2)
                    /\ SourceMax(pass, r1) # SourceMax(pass, r2)
            /\ res.rows # pre[Target(pass)]

(* --------------------------- node independence ------------------------ *)

\* the rows of the rollup tiers of the database d that belong to the nodes
\* other than NodeB
RollupRowsOfOthers(d) ==
    [t \in {Target(pass) : pass \in Passes} |-> {r \in d[t] : r.node_id # NodeB}]

\* C32: compaction of one node is independent of the other nodes: in two
\* executions that differ only in the samples of the node NodeB and run the
\* same compaction passes at the same times, the rollup rows of every other
\* node are the same.
C32_NodeIndependence == RollupRowsOfOthers(db) = RollupRowsOfOthers(twin)

(* ----------------------------- a failed pass -------------------------- *)

\* C33: a compaction pass of a cycle whose insert fails changes nothing: the
\* target tier is as before the pass, with none of the groups of the pass
\* inserted, and the source tier and every other table are unchanged.
C33_FailedPassChangesNothing ==
    \A k \in PassCalls :
        LET pass == Cycle[k].fn
            pre == PreStore(k)
        IN  Rollup(pass, pre.db, now - Settle(pass)).err
                => Call(k, pre, now).db = pre.db

\* a pass fails on the group of a rolled bucket while it has selected the
\* group of a bucket that is not in its target tier
C33_Witness ==
    \E k \in PassCalls :
        LET pass == Cycle[k].fn
            pre == PreStore(k).db
        IN  /\ Rollup(pass, pre, now - Settle(pass)).err
            /\ \E key \in SelectedGroups(pass, pre, now - Settle(pass)) :
                    key \notin TargetKeys(pass, pre)

(* ------------------- the lock and the one connection ------------------ *)

\* the next statement of the call the goroutine p is in
Step(p) ==
    \/ Lock(p) \/ Begin(p) \/ ExecTx(p) \/ Commit(p) \/ Rollback(p)
    \/ ExecUpsert(p) \/ ExecSingle(p) \/ QueryRow(p) \/ ExecRollup(p)
    \/ ExecPrune(p) \/ Unlock(p) \/ Query(p) \/ Return(p)

\* the goroutines that are in a call
InCall == {p \in Procs : pc[p] # "idle"}

\* C34: no deadlock between the write lock and the single connection: under
\* every interleaving of ingest calls, compaction passes, prunes and reads,
\* as long as a goroutine is in a call some goroutine in a call can run its
\* next statement, and the goroutine that has the lock or the connection is
\* never one that waits for the lock.  Every call is a bounded number of
\* statements, so every lock that is taken is released and every read ends.
C34_NoDeadlock ==
    /\ InCall # {} => \E q \in InCall : ENABLED Step(q)
    /\ \A p \in Procs : pc[p] = "Lock" => (p \notin Holders /\ conn # p)
    /\ conn # NULL => conn \in InCall

\* a write that holds the lock waits for the connection that the rows of a
\* read hold
C34_Witness ==
    \E p, q \in Procs :
        /\ p \in Holders
        /\ pc[p] \in {"Begin", "Exec", "QueryRow"}
        /\ conn = q
        /\ pc[q] = "Return"
        /\ ~ ENABLED Step(p)

(* ------------------------ a failed write on the hub ------------------- *)

\* C35: on the ingest endpoints of the hub a write that returns an error has
\* no other effect: the last_seen of no node changes (the store is as before
\* the request), nothing is passed to Broadcast and the response has an
\* error status.
C35_FailedIngest ==
    [][(resp'.fn \in HubIngests /\ writes' = writes + 1 /\ resp'.err)
          => /\ db' = db
             /\ resp'.broadcast = <<>>
             /\ resp'.status >= 400]_vars

\* the write of an ingest from a registered node failed, after the time at
\* which the node was last seen
C35_Witness ==
    /\ resp.fn \in HubIngests
    /\ resp.err
    /\ \E n \in db["nodes"] : n.node_id = IngestNode /\ n.last_seen < resp.at

(* ----------------------- malformed query parameters ------------------- *)

\* a from, to or range parameter that is given and cannot be parsed
BadTimeRange(r) ==
    \/ r.from # <<>> /\ ~ParseInt(r.from).ok
    \/ r.to # <<>> /\ ~ParseInt(r.to).ok
    \/ r.range # <<>> /\ ~ParseDuration(r.range).ok

\* the requests for a time series
SeriesHandlers == {"handleGPURoute", "handleGPUMetrics", "handleHostMetrics"}

\* C36: a history request whose from, to or range parameter cannot be parsed,
\* or whose GPU id is not an integer, is answered with an error status and
\* makes no call to GetGPUMetrics or GetHostMetrics.
C36_MalformedRejected ==
    resp.fn \in SeriesHandlers =>
        ((BadTimeRange(resp.req)
            \/ (resp.fn # "handleHostMetrics" /\ ~ParseInt(resp.req.id).ok))
          => (resp.status >= 400 /\ resp.called = <<>>))

(* --------------------------- Agent.Register --------------------------- *)

\* Register has returned nil only if the hub has registered the agent, and
\* ctx.Err() only if the context is cancelled
RegisterReturns ==
    /\ agent.result = "nil" => agent.accepted
    /\ agent.result = "ctx.Err" => ctxDone

\* an attempt that follows a failed one starts RetryAfter seconds after it
RegisterWaits ==
    agent.pc = "select" /\ agent'.pc = "post" => agent.secs >= RetryAfter

\* C37: Register returns nil only after the hub has accepted a registration
\* request and the context's error only after cancellation; between a
\* failed attempt and the next it waits 5 seconds; and when the hub accepts
\* from some time on and the context is never cancelled, it returns nil
C37_RegisterRetries ==
    /\ []RegisterReturns
    /\ [][RegisterWaits]_vars
    /\ (<>[](agent.hub = "up") /\ []~ctxDone) => <>(agent.result = "nil")

\* Register has returned nil at its third attempt or later
C37_Witness ==
    agent.result = "nil" /\ agent.attempts >= 3 /\ agent.accepted /\ ~ctxDone

(* ------------------------- writes to a connection --------------------- *)

\* C38: at most one goroutine is inside WriteMessage of a connection at any
\* time
C38_OneWriter == \A c \in Conns : Cardinality(Writers(c)) <= 1

(* ------------------------- removal of a client ------------------------ *)

\* the connection is not in h.clients and is closed
Removed(c) == c \notin hub.clients /\ hub.connState[c] = "closed"

\* the connections a goroutine waits to delete from h.clients
Removing == {c \in Conns : hub.ws[c] = "LockDelete" \/ hub.removers[c] > 0}

\* C39: a client whose write failed or whose read loop ended is eventually
\* out of h.clients with its connection closed; Broadcast writes only to
\* connections that are in h.clients; and while a goroutine waits to remove
\* a client, some goroutine of the hub can take a step
C39_ClientRemoved ==
    /\ \A c \in Conns : (c \in hub.failed) ~> Removed(c)
    /\ [](\A c \in Conns : Writers(c) # {} => c \in hub.clients)
    /\ [](Removing # {} => ENABLED HubStep)

(* --------------------- the dashboard's reconnection ------------------- *)

\* C40: after disconnect() and until the page calls connect() no timer of a
\* reconnection is pending and no socket is connecting or open, and at most
\* one socket is connecting or open at any time
C40_NoReconnectAfterDisconnect ==
    /\ ui.stopped => (ui.timers = {} /\ Live = {})
    /\ Cardinality(Live) <= 1

====
